---- MODULE Spec2Model ----
(***************************************************************************)
(* A model of the blood-language tree-walking interpreter                  *)
(* (src/src/interpreter.rs) run on programs built from the AST of          *)
(* src/src/ast.rs.  The interpreter state is the fields of Interpreter;    *)
(* the Rust activation records of execute_stmt / eval_expr / interpret     *)
(* are the records of kont, and ctl is what the running activation is      *)
(* about to do or has just been handed back.                               *)
(***************************************************************************)
EXTENDS Integers, Sequences, FiniteSets, TLC

\* ------------------------------------------------------------------ bounds
MaxFrames == 3      \* frames the call stack may hold (recursion cut-off)
MaxBodyLen == 2     \* statements in the body placed inside a context
MaxInt == 20        \* integers the model computes lie in -MaxInt..MaxInt
MaxOutput == 8      \* lines a run may print (a printing endless loop is cut off)
MaxChain == 3       \* conditions of an if/elseif chain
MaxCalls == 2       \* calls of f nested in the argument lists of one call
MaxDividend == 3    \* operands of the divisions lie in -MaxDividend..MaxDividend
MaxOperands == 3    \* operands of the expressions the parser is run on
MaxInput == 6       \* characters of the inputs the lexer is run on

\* --------------------------------------------------------------- ast.rs
Number(val) == [t |-> "Number", val |-> val]
Boolean(val) == [t |-> "Boolean", val |-> val]
Nil == [t |-> "Nil"]
Variable(name) == [t |-> "Variable", name |-> name]
Binary(left, op, right) == [t |-> "Binary", left |-> left, op |-> op, right |-> right]
Unary(op, right) == [t |-> "Unary", op |-> op, right |-> right]
Call(name, args) == [t |-> "Call", name |-> name, args |-> args]

None == [some |-> FALSE]
Some(x) == [some |-> TRUE, x |-> x]

Let(name, mutable, value) == [t |-> "Let", name |-> name, mutable |-> mutable, value |-> value]
Assign(name, value) == [t |-> "Assign", name |-> name, value |-> value]
PrintStmt(expr) == [t |-> "Print", expr |-> expr]
If(condition, then_branch, else_branch) ==
    [t |-> "If", condition |-> condition, then_branch |-> then_branch,
     else_branch |-> else_branch]
While(condition, body) == [t |-> "While", condition |-> condition, body |-> body]
Loop(body) == [t |-> "Loop", body |-> body]
Break == [t |-> "Break"]
Continue == [t |-> "Continue"]
Return(expr) == [t |-> "Return", expr |-> expr]
Fn(name, params, body) == [t |-> "Fn", name |-> name, params |-> params, body |-> body]
ExprStmt(expr) == [t |-> "ExprStmt", expr |-> expr]

\* ------------------------------------------------- interpreter.rs: Value
IntegerV(v) == [t |-> "Integer", v |-> v]
BooleanV(v) == [t |-> "Boolean", v |-> v]
NilV == [t |-> "Nil"]
FunctionV(name, params, body) ==
    [t |-> "Function", name |-> name, params |-> params, body |-> body]

\* #[derive(PartialEq)] on Value: same variant and equal payload
ValueEq(l, r) ==
    /\ l.t = r.t
    /\ CASE l.t = "Integer" -> l.v = r.v
         [] l.t = "Boolean" -> l.v = r.v
         [] l.t = "Nil" -> TRUE
         [] OTHER -> l.name = r.name /\ l.params = r.params /\ l.body = r.body

\* impl fmt::Display for Value
Display(val) ==
    CASE val.t = "Integer" -> ToString(val.v)
      [] val.t = "Boolean" -> IF val.v THEN "true" ELSE "false"
      [] val.t = "Nil" -> "nil"
      [] OTHER -> "<fn " \o val.name \o ">"

\* struct Variable
VariableB(value, mutable) == [value |-> value, mutable |-> mutable]

\* enum ExecutionResult
Normal == [t |-> "Normal"]
BreakR == [t |-> "Break"]
ContinueR == [t |-> "Continue"]
ReturnR(v) == [t |-> "Return", v |-> v]

\* Result<T, String>
Ok(x) == [ok |-> TRUE, x |-> x]
Err(msg) == [ok |-> FALSE, msg |-> msg]

\* HashMap<String, Variable>
EmptyMap == [n \in {} |-> NilV]
Insert(map, name, var) ==
    [n \in (DOMAIN map) \cup {name} |-> IF n = name THEN var ELSE map[n]]

\* current_frame / current_frame_mut: call_stack.last().unwrap()
CurrentFrame(cs) == cs[Len(cs)]

\* enter_scope: current_frame_mut().push(HashMap::new())
EnterScope(cs) == [cs EXCEPT ![Len(cs)] = Append(@, EmptyMap)]

\* exit_scope: current_frame_mut().pop()
ExitScope(cs) == [cs EXCEPT ![Len(cs)] = SubSeq(@, 1, Len(@) - 1)]

\* the scopes of frame that bind name
Binders(frame, name) == {i \in 1..Len(frame) : name \in DOMAIN frame[i]}
Innermost(S) == CHOOSE i \in S : \A j \in S : j <= i

\* get_variable gone wrong: every frame of the call stack is searched, top first
RECURSIVE LookupFrom(_, _, _, _)
LookupFrom(gl, cs, name, i) ==
    IF i = 0
    THEN IF name \in DOMAIN gl THEN Ok(gl[name].value)
         ELSE Err("Runtime Error: Variable '" \o name \o "' not defined.")
    ELSE IF Binders(cs[i], name) # {}
    THEN Ok(cs[i][Innermost(Binders(cs[i], name))][name].value)
    ELSE LookupFrom(gl, cs, name, i - 1)
GetVariableAllFrames(gl, cs, name) == LookupFrom(gl, cs, name, Len(cs))

\* get_variable: current frame innermost to outermost, then globals
GetVariable(gl, cs, name) ==
    LET frame == CurrentFrame(cs)
        hits == Binders(frame, name)
    IN  IF hits # {} THEN Ok(frame[Innermost(hits)][name].value)
        ELSE IF name \in DOMAIN gl THEN Ok(gl[name].value)
        ELSE Err("Runtime Error: Variable '" \o name \o "' not defined.")

\* define_variable gone wrong: inside a call the contains_key check is missing
\* and insert replaces the binding
DefineVariableOverwrite(gl, cs, fd, name, value, mutable) ==
    IF fd = 0
    THEN IF name \in DOMAIN gl
         THEN Err("Runtime Error: Global variable '" \o name \o "' already declared.")
         ELSE Ok([globals |-> Insert(gl, name, VariableB(value, mutable)),
                  call_stack |-> cs])
    ELSE Ok([globals |-> gl,
             call_stack |->
               [cs EXCEPT ![Len(cs)][Len(cs[Len(cs)])] =
                   Insert(@, name, VariableB(value, mutable))]])

\* define_variable: globals at function depth 0, else the innermost scope
DefineVariable(gl, cs, fd, name, value, mutable) ==
    IF fd = 0
    THEN IF name \in DOMAIN gl
         THEN Err("Runtime Error: Global variable '" \o name \o "' already declared.")
         ELSE Ok([globals |-> Insert(gl, name, VariableB(value, mutable)),
                  call_stack |-> cs])
    ELSE LET frame == CurrentFrame(cs)
             current_scope == frame[Len(frame)]
         IN  IF name \in DOMAIN current_scope
             THEN Err("Runtime Error: Variable '" \o name
                      \o "' already declared in this scope.")
             ELSE Ok([globals |-> gl,
                      call_stack |->
                        [cs EXCEPT ![Len(cs)][Len(frame)] =
                            Insert(@, name, VariableB(value, mutable))]])

\* assign_variable gone wrong: the mutable flag is checked for globals only
AssignVariableIgnoresFlag(gl, cs, name, value) ==
    LET frame == CurrentFrame(cs)
        hits == Binders(frame, name)
    IN  IF hits # {}
        THEN Ok([globals |-> gl,
                 call_stack |->
                   [cs EXCEPT ![Len(cs)][Innermost(hits)][name].value = value]])
        ELSE IF name \in DOMAIN gl
        THEN IF ~gl[name].mutable
             THEN Err("Runtime Error: Cannot reassign immutable variable '"
                      \o name \o "'.")
             ELSE Ok([globals |-> [gl EXCEPT ![name].value = value],
                      call_stack |-> cs])
        ELSE Err("Runtime Error: Variable '" \o name \o "' not found.")

\* assign_variable: first match in the current frame, then globals
AssignVariable(gl, cs, name, value) ==
    LET frame == CurrentFrame(cs)
        hits == Binders(frame, name)
        immutable == Err("Runtime Error: Cannot reassign immutable variable '"
                         \o name \o "'.")
    IN  IF hits # {}
        THEN IF ~frame[Innermost(hits)][name].mutable
             THEN immutable
             ELSE Ok([globals |-> gl,
                      call_stack |->
                        [cs EXCEPT ![Len(cs)][Innermost(hits)][name].value = value]])
        ELSE IF name \in DOMAIN gl
        THEN IF ~gl[name].mutable
             THEN immutable
             ELSE Ok([globals |-> [gl EXCEPT ![name].value = value],
                      call_stack |-> cs])
        ELSE Err("Runtime Error: Variable '" \o name \o "' not found.")

\* i64 division and remainder truncate toward zero
Abs(a) == IF a < 0 THEN -a ELSE a
TruncDiv(a, b) ==
    LET q == Abs(a) \div Abs(b)
    IN  IF (a < 0) = (b < 0) THEN q ELSE -q
TruncRem(a, b) == a - b * TruncDiv(a, b)

\* fn arithmetic
Arithmetic(l, r, op) ==
    IF l.t = "Integer" /\ r.t = "Integer"
    THEN Ok(IntegerV(CASE op = "Add" -> l.v + r.v
                       [] op = "Sub" -> l.v - r.v
                       [] OTHER -> l.v * r.v))
    ELSE Err("Runtime Error: Operands must be integers.")

\* fn comparison
Comparison(l, r, op) ==
    IF l.t = "Integer" /\ r.t = "Integer"
    THEN Ok(BooleanV(CASE op = "Lt" -> l.v < r.v
                       [] op = "Gt" -> l.v > r.v
                       [] op = "LtEq" -> l.v <= r.v
                       [] OTHER -> l.v >= r.v))
    ELSE Err("Runtime Error: Comparison operands must be integers.")

\* the match on op gone wrong: the Mod arm reports the error of the Div arm
ApplyBinaryModSaysDivision(op, l, r) ==
    CASE op \in {"Add", "Sub", "Mul"} -> Arithmetic(l, r, op)
      [] op = "Div" ->
            IF l.t = "Integer" /\ r.t = "Integer"
            THEN IF r.v = 0 THEN Err("Runtime Error: Division by zero.")
                 ELSE Ok(IntegerV(TruncDiv(l.v, r.v)))
            ELSE Err("Runtime Error: Operands must be integers.")
      [] op = "Mod" ->
            IF l.t = "Integer" /\ r.t = "Integer"
            THEN IF r.v = 0 THEN Err("Runtime Error: Division by zero.")
                 ELSE Ok(IntegerV(TruncRem(l.v, r.v)))
            ELSE Err("Runtime Error: Operands must be integers.")
      [] op = "Equal" -> Ok(BooleanV(ValueEq(l, r)))
      [] op = "NotEqual" -> Ok(BooleanV(~ValueEq(l, r)))
      [] op \in {"Lt", "Gt", "LtEq", "GtEq"} -> Comparison(l, r, op)
      [] op = "And" ->
            IF l.t = "Boolean" /\ r.t = "Boolean"
            THEN Ok(BooleanV(l.v /\ r.v))
            ELSE Err("Runtime Error: 'and' operands must be booleans.")
      [] OTHER ->
            IF l.t = "Boolean" /\ r.t = "Boolean"
            THEN Ok(BooleanV(l.v \/ r.v))
            ELSE Err("Runtime Error: 'or' operands must be booleans.")

\* eval_expr, Expr::Binary: the match on op, both operands already evaluated
ApplyBinary(op, l, r) ==
    CASE op \in {"Add", "Sub", "Mul"} -> Arithmetic(l, r, op)
      [] op = "Div" ->
            IF l.t = "Integer" /\ r.t = "Integer"
            THEN IF r.v = 0 THEN Err("Runtime Error: Division by zero.")
                 ELSE Ok(IntegerV(TruncDiv(l.v, r.v)))
            ELSE Err("Runtime Error: Operands must be integers.")
      [] op = "Mod" ->
            IF l.t = "Integer" /\ r.t = "Integer"
            THEN IF r.v = 0 THEN Err("Runtime Error: Modulo by zero.")
                 ELSE Ok(IntegerV(TruncRem(l.v, r.v)))
            ELSE Err("Runtime Error: Operands must be integers.")
      [] op = "Equal" -> Ok(BooleanV(ValueEq(l, r)))
      [] op = "NotEqual" -> Ok(BooleanV(~ValueEq(l, r)))
      [] op \in {"Lt", "Gt", "LtEq", "GtEq"} -> Comparison(l, r, op)
      [] op = "And" ->
            IF l.t = "Boolean" /\ r.t = "Boolean"
            THEN Ok(BooleanV(l.v /\ r.v))
            ELSE Err("Runtime Error: 'and' operands must be booleans.")
      [] OTHER ->
            IF l.t = "Boolean" /\ r.t = "Boolean"
            THEN Ok(BooleanV(l.v \/ r.v))
            ELSE Err("Runtime Error: 'or' operands must be booleans.")

\* eval_expr, Expr::Unary: Op::Not on the evaluated operand
ApplyUnary(op, r) ==
    IF r.t = "Boolean" THEN Ok(BooleanV(~r.v))
    ELSE Err("Runtime Error: 'not' expects a boolean.")

\* values the model can hold: integers stay inside the modelled range
Representable(res) == res.ok /\ res.x.t = "Integer" => res.x.v \in -MaxInt..MaxInt

\* ------------------------------------------------------------------ state
VARIABLES
    globals,         \* Interpreter.globals
    call_stack,      \* Interpreter.call_stack: frames of scopes, top last
    loop_depth,      \* Interpreter.loop_depth
    function_depth,  \* Interpreter.function_depth
    output,          \* the lines println! has written
    kont,            \* the active Rust activations, innermost first
    ctl,             \* what the innermost activation does next
    err              \* the Err string interpret returns, "" while there is none

vars == <<globals, call_stack, loop_depth, function_depth, output, kont, ctl, err>>
interp == <<globals, call_stack, loop_depth, function_depth>>

\* positions of control
AtStmt(s) == [m |-> "stmt", s |-> s]         \* execute_stmt(s) is entered
AtExpr(e) == [m |-> "expr", e |-> e]         \* eval_expr(e) is entered
Value(v) == [m |-> "value", v |-> v]         \* eval_expr returned Ok(v)
Result(r) == [m |-> "result", r |-> r]       \* execute_stmt returned Ok(r)
Iter == [m |-> "iter"]                       \* a for loop takes its first element
Failing == [m |-> "err"]                     \* an Err travels up through `?`
Exit == [m |-> "exit"]                       \* interpret has returned
AtMain == [m |-> "main"]                     \* main holds the tokens of its file
Panicked == [m |-> "panic"]                  \* a panic! has ended the process

Top == kont[1]
Push(rec) == <<rec>> \o kont
Pop == Tail(kont)
Replace(rec) == <<rec>> \o Tail(kont)

\* no Err has been produced yet
Running(e) == e = ""

AtStmtOf(kind) == Running(err) /\ ctl.m = "stmt" /\ ctl.s.t = kind
AtExprOf(kind) == Running(err) /\ ctl.m = "expr" /\ ctl.e.t = kind
\* the activation rec of kind k at position pc is innermost and is handed a value
Handed(k, pc) ==
    /\ Running(err) /\ kont # <<>> /\ Top.k = k /\ Top.pc = pc /\ ctl.m = "value"
\* a statement loop of kind k starts, or its last statement returned Normal
Advancing(k) ==
    /\ Running(err) /\ kont # <<>> /\ Top.k = k /\ Top.pc = "body"
    /\ ctl.m = "iter" \/ (ctl.m = "result" /\ ctl.r.t = "Normal")
\* a statement of a statement loop of kind k returned something else
Signalled(k) ==
    /\ Running(err) /\ kont # <<>> /\ Top.k = k /\ Top.pc = "body"
    /\ ctl.m = "result" /\ ctl.r.t # "Normal"

\* return Err(msg) / the `?` operator: nothing of the interpreter is touched
Raise(msg) ==
    /\ err' = msg
    /\ ctl' = Failing
    /\ UNCHANGED <<globals, call_stack, loop_depth, function_depth, output, kont>>

\* ------------------------------------------------- Interpreter::interpret
\* for stmt in statements { match self.execute_stmt(stmt)? { .. } } Ok(()):
\* Normal goes on to the next statement, any other signal is an Err
InterpretStep ==
    /\ Running(err) /\ kont # <<>> /\ Top.k = "interpret"
    /\ ctl.m \in {"iter", "result"}
    /\ IF ctl.m = "result" /\ ctl.r.t # "Normal"
       THEN Raise(CASE ctl.r.t = "Break" ->
                         "Runtime error: 'break' used outside of loop"
                    [] ctl.r.t = "Continue" ->
                         "Runtime error: 'continue' used outside of loop"
                    [] OTHER -> "Runtime error: 'return' used outside of function")
       ELSE /\ IF Top.rest = <<>>
               THEN ctl' = Exit /\ kont' = <<>>
               ELSE /\ ctl' = AtStmt(Head(Top.rest))
                    /\ kont' = Replace([Top EXCEPT !.rest = Tail(@)])
            /\ UNCHANGED <<globals, call_stack, loop_depth, function_depth,
                           output, err>>

\* `?` gone wrong: Print turns the Err of its argument into a printed nil
PropagateSwallowedByPrint ==
    /\ ctl.m = "err" /\ kont # <<>>
    /\ kont' = Pop
    /\ IF Top.k = "Print"
       THEN /\ output' = Append(output, "nil")
            /\ ctl' = Result(Normal)
            /\ err' = ""
       ELSE /\ ctl' = IF Pop = <<>> THEN Exit ELSE Failing
            /\ UNCHANGED <<output, err>>
    /\ UNCHANGED <<globals, call_stack, loop_depth, function_depth>>

\* `?`: each activation returns the Err to its caller, running no cleanup
Propagate ==
    /\ ctl.m = "err" /\ kont # <<>>
    /\ kont' = Pop
    /\ ctl' = IF Pop = <<>> THEN Exit ELSE Failing
    /\ UNCHANGED <<globals, call_stack, loop_depth, function_depth, output, err>>

\* --------------------------------------- execute_stmt: Let, Assign, Print
ExecLet ==
    /\ AtStmtOf("Let")
    /\ kont' = Push([k |-> "Let", pc |-> "value", name |-> ctl.s.name,
                     mutable |-> ctl.s.mutable])
    /\ ctl' = AtExpr(ctl.s.value)
    /\ UNCHANGED <<globals, call_stack, loop_depth, function_depth, output, err>>

\* self.define_variable(name, val, mutable)?
LetDefine ==
    /\ Handed("Let", "value")
    /\ LET res == DefineVariable(globals, call_stack, function_depth,
                                 Top.name, ctl.v, Top.mutable)
       IN  IF res.ok
           THEN /\ globals' = res.x.globals
                /\ call_stack' = res.x.call_stack
                /\ kont' = Pop
                /\ ctl' = Result(Normal)
                /\ UNCHANGED <<loop_depth, function_depth, output, err>>
           ELSE Raise(res.msg)

ExecAssign ==
    /\ AtStmtOf("Assign")
    /\ kont' = Push([k |-> "Assign", pc |-> "value", name |-> ctl.s.name])
    /\ ctl' = AtExpr(ctl.s.value)
    /\ UNCHANGED <<globals, call_stack, loop_depth, function_depth, output, err>>

\* self.assign_variable(&name, val)?
AssignStore ==
    /\ Handed("Assign", "value")
    /\ LET res == AssignVariable(globals, call_stack, Top.name, ctl.v)
       IN  IF res.ok
           THEN /\ globals' = res.x.globals
                /\ call_stack' = res.x.call_stack
                /\ kont' = Pop
                /\ ctl' = Result(Normal)
                /\ UNCHANGED <<loop_depth, function_depth, output, err>>
           ELSE Raise(res.msg)

ExecPrint ==
    /\ AtStmtOf("Print")
    /\ kont' = Push([k |-> "Print", pc |-> "value"])
    /\ ctl' = AtExpr(ctl.s.expr)
    /\ UNCHANGED <<globals, call_stack, loop_depth, function_depth, output, err>>

\* println!("{}", val)
PrintValue ==
    /\ Handed("Print", "value")
    /\ Len(output) < MaxOutput
    /\ output' = Append(output, Display(ctl.v))
    /\ kont' = Pop
    /\ ctl' = Result(Normal)
    /\ UNCHANGED <<globals, call_stack, loop_depth, function_depth, err>>

ExecExprStmt ==
    /\ AtStmtOf("ExprStmt")
    /\ kont' = Push([k |-> "ExprStmt", pc |-> "value"])
    /\ ctl' = AtExpr(ctl.s.expr)
    /\ UNCHANGED <<globals, call_stack, loop_depth, function_depth, output, err>>

ExprStmtDone ==
    /\ Handed("ExprStmt", "value")
    /\ kont' = Pop
    /\ ctl' = Result(Normal)
    /\ UNCHANGED <<globals, call_stack, loop_depth, function_depth, output, err>>

\* ------------------------------------------------------ execute_stmt: If
\* entry_scopes records the scope count of the frame when the statement began
ExecIf ==
    /\ AtStmtOf("If")
    /\ kont' = Push([k |-> "If", pc |-> "cond", then_branch |-> ctl.s.then_branch,
                     else_branch |-> ctl.s.else_branch, rest |-> <<>>,
                     entry_scopes |-> Len(CurrentFrame(call_stack))])
    /\ ctl' = AtExpr(ctl.s.condition)
    /\ UNCHANGED <<globals, call_stack, loop_depth, function_depth, output, err>>

IfCond ==
    /\ Handed("If", "cond")
    /\ IF ctl.v.t # "Boolean"
       THEN Raise("Runtime error: condition must be boolean")
       ELSE IF ctl.v.v \/ Top.else_branch.some
       THEN /\ call_stack' = EnterScope(call_stack)
            /\ kont' = Replace([Top EXCEPT !.pc = "body",
                                  !.rest = IF ctl.v.v THEN Top.then_branch
                                           ELSE Top.else_branch.x])
            /\ ctl' = Iter
            /\ UNCHANGED <<globals, loop_depth, function_depth, output, err>>
       ELSE /\ kont' = Pop
            /\ ctl' = Result(Normal)
            /\ UNCHANGED <<globals, call_stack, loop_depth, function_depth, output, err>>

\* for s in branch { .. } self.exit_scope()
IfNext ==
    /\ Advancing("If")
    /\ IF Top.rest = <<>>
       THEN /\ call_stack' = ExitScope(call_stack)
            /\ kont' = Pop
            /\ ctl' = Result(Normal)
       ELSE /\ ctl' = AtStmt(Head(Top.rest))
            /\ kont' = Replace([Top EXCEPT !.rest = Tail(@)])
            /\ UNCHANGED call_stack
    /\ UNCHANGED <<globals, loop_depth, function_depth, output, err>>

\* the early return of If gone wrong: exit_scope is missing
IfSignalKeepsScope ==
    /\ Signalled("If")
    /\ kont' = Pop
    /\ UNCHANGED <<globals, call_stack, loop_depth, function_depth, output, ctl, err>>

\* if !matches!(res, Normal) { self.exit_scope(); return Ok(res); }
IfSignal ==
    /\ Signalled("If")
    /\ call_stack' = ExitScope(call_stack)
    /\ kont' = Pop
    /\ UNCHANGED <<globals, loop_depth, function_depth, output, ctl, err>>

\* --------------------------------------------------- execute_stmt: While
ExecWhile ==
    /\ AtStmtOf("While")
    /\ loop_depth' = loop_depth + 1
    /\ kont' = Push([k |-> "While", pc |-> "cond", condition |-> ctl.s.condition,
                     body |-> ctl.s.body, rest |-> <<>>,
                     entry_scopes |-> Len(CurrentFrame(call_stack)),
                     first |-> TRUE,
                     entry_state |-> <<globals, call_stack, output>>])
    /\ ctl' = AtExpr(ctl.s.condition)
    /\ UNCHANGED <<globals, call_stack, function_depth, output, err>>

\* the condition check gone wrong: the body runs once before the first check
WhileCondBodyFirst ==
    /\ Handed("While", "cond")
    /\ IF ctl.v.t # "Boolean"
       THEN Raise("Runtime error: while condition must be boolean")
       ELSE IF ~ctl.v.v /\ ~Top.first
       THEN /\ loop_depth' = loop_depth - 1
            /\ kont' = Pop
            /\ ctl' = Result(Normal)
            /\ UNCHANGED <<globals, call_stack, function_depth, output, err>>
       ELSE /\ call_stack' = EnterScope(call_stack)
            /\ kont' = Replace([Top EXCEPT !.pc = "body", !.rest = Top.body,
                                           !.first = FALSE])
            /\ ctl' = Iter
            /\ UNCHANGED <<globals, loop_depth, function_depth, output, err>>

\* cond_val must be a Boolean; if !cond_bool { break; } else enter_scope and
\* run the body (first records that no iteration has started yet)
WhileCond ==
    /\ Handed("While", "cond")
    /\ IF ctl.v.t # "Boolean"
       THEN Raise("Runtime error: while condition must be boolean")
       ELSE IF ~ctl.v.v
       THEN /\ loop_depth' = loop_depth - 1
            /\ kont' = Pop
            /\ ctl' = Result(Normal)
            /\ UNCHANGED <<globals, call_stack, function_depth, output, err>>
       ELSE /\ call_stack' = EnterScope(call_stack)
            /\ kont' = Replace([Top EXCEPT !.pc = "body", !.rest = Top.body,
                                           !.first = FALSE])
            /\ ctl' = Iter
            /\ UNCHANGED <<globals, loop_depth, function_depth, output, err>>

\* the body ran to its end: exit_scope, no flow flag set, next iteration
WhileNext ==
    /\ Advancing("While")
    /\ IF Top.rest = <<>>
       THEN /\ call_stack' = ExitScope(call_stack)
            /\ kont' = Replace([Top EXCEPT !.pc = "cond"])
            /\ ctl' = AtExpr(Top.condition)
       ELSE /\ ctl' = AtStmt(Head(Top.rest))
            /\ kont' = Replace([Top EXCEPT !.rest = Tail(@)])
            /\ UNCHANGED call_stack
    /\ UNCHANGED <<globals, loop_depth, function_depth, output, err>>

\* the signal handling of While gone wrong: Break is passed on to the
\* enclosing statement instead of ending with this loop
WhileSignalBreakGoesOn ==
    /\ Signalled("While")
    /\ call_stack' = ExitScope(call_stack)
    /\ IF ctl.r.t = "Continue"
       THEN /\ kont' = Replace([Top EXCEPT !.pc = "cond", !.rest = <<>>])
            /\ ctl' = AtExpr(Top.condition)
            /\ UNCHANGED loop_depth
       ELSE /\ loop_depth' = loop_depth - 1
            /\ kont' = Pop
            /\ ctl' = ctl
    /\ UNCHANGED <<globals, function_depth, output, err>>

\* Break / Continue / Return from a body statement, then exit_scope
WhileSignal ==
    /\ Signalled("While")
    /\ call_stack' = ExitScope(call_stack)
    /\ IF ctl.r.t = "Continue"
       THEN /\ kont' = Replace([Top EXCEPT !.pc = "cond", !.rest = <<>>])
            /\ ctl' = AtExpr(Top.condition)
            /\ UNCHANGED loop_depth
       ELSE /\ loop_depth' = loop_depth - 1
            /\ kont' = Pop
            /\ ctl' = IF ctl.r.t = "Break" THEN Result(Normal) ELSE ctl
    /\ UNCHANGED <<globals, function_depth, output, err>>

\* ---------------------------------------------------- execute_stmt: Loop
ExecLoop ==
    /\ AtStmtOf("Loop")
    /\ loop_depth' = loop_depth + 1
    /\ call_stack' = EnterScope(call_stack)
    /\ kont' = Push([k |-> "Loop", pc |-> "body", body |-> ctl.s.body,
                     rest |-> ctl.s.body,
                     entry_scopes |-> Len(CurrentFrame(call_stack))])
    /\ ctl' = Iter
    /\ UNCHANGED <<globals, function_depth, output, err>>

\* the body ran to its end: exit_scope, then enter_scope of the next iteration
LoopNext ==
    /\ Advancing("Loop")
    /\ IF Top.rest = <<>>
       THEN /\ call_stack' = EnterScope(ExitScope(call_stack))
            /\ kont' = Replace([Top EXCEPT !.rest = Top.body])
            /\ ctl' = Iter
       ELSE /\ ctl' = AtStmt(Head(Top.rest))
            /\ kont' = Replace([Top EXCEPT !.rest = Tail(@)])
            /\ UNCHANGED call_stack
    /\ UNCHANGED <<globals, loop_depth, function_depth, output, err>>

\* the signal handling of Loop gone wrong: Return ends the loop like Break
LoopSignalReturnBreaks ==
    /\ Signalled("Loop")
    /\ IF ctl.r.t = "Continue"
       THEN /\ call_stack' = EnterScope(ExitScope(call_stack))
            /\ kont' = Replace([Top EXCEPT !.rest = Top.body])
            /\ ctl' = Iter
            /\ UNCHANGED loop_depth
       ELSE /\ call_stack' = ExitScope(call_stack)
            /\ loop_depth' = loop_depth - 1
            /\ kont' = Pop
            /\ ctl' = Result(Normal)
    /\ UNCHANGED <<globals, function_depth, output, err>>

\* Break / Continue / Return from a body statement of Loop
LoopSignal ==
    /\ Signalled("Loop")
    /\ IF ctl.r.t = "Continue"
       THEN /\ call_stack' = EnterScope(ExitScope(call_stack))
            /\ kont' = Replace([Top EXCEPT !.rest = Top.body])
            /\ ctl' = Iter
            /\ UNCHANGED loop_depth
       ELSE /\ call_stack' = ExitScope(call_stack)
            /\ loop_depth' = loop_depth - 1
            /\ kont' = Pop
            /\ ctl' = IF ctl.r.t = "Break" THEN Result(Normal) ELSE ctl
    /\ UNCHANGED <<globals, function_depth, output, err>>

\* --------------------------- execute_stmt: Break, Continue, Fn, Return
\* Break gone wrong: the loop_depth check is missing
ExecBreakUnchecked ==
    /\ AtStmtOf("Break")
    /\ ctl' = Result(BreakR)
    /\ UNCHANGED <<globals, call_stack, loop_depth, function_depth, output, kont, err>>

ExecBreak ==
    /\ AtStmtOf("Break")
    /\ IF loop_depth = 0
       THEN Raise("Runtime error: 'break' used outside of loop")
       ELSE /\ ctl' = Result(BreakR)
            /\ UNCHANGED <<globals, call_stack, loop_depth, function_depth,
                           output, kont, err>>

\* Continue gone wrong: the loop_depth check is missing
ExecContinueUnchecked ==
    /\ AtStmtOf("Continue")
    /\ ctl' = Result(ContinueR)
    /\ UNCHANGED <<globals, call_stack, loop_depth, function_depth, output, kont, err>>

ExecContinue ==
    /\ AtStmtOf("Continue")
    /\ IF loop_depth = 0
       THEN Raise("Runtime error: 'continue' used outside of loop")
       ELSE /\ ctl' = Result(ContinueR)
            /\ UNCHANGED <<globals, call_stack, loop_depth, function_depth,
                           output, kont, err>>

\* self.define_variable(name, func, false)?
ExecFn ==
    /\ AtStmtOf("Fn")
    /\ LET func == FunctionV(ctl.s.name, ctl.s.params, ctl.s.body)
           res == DefineVariable(globals, call_stack, function_depth,
                                 ctl.s.name, func, FALSE)
       IN  IF res.ok
           THEN /\ globals' = res.x.globals
                /\ call_stack' = res.x.call_stack
                /\ ctl' = Result(Normal)
                /\ UNCHANGED <<loop_depth, function_depth, output, kont, err>>
           ELSE Raise(res.msg)

ExecReturn ==
    /\ AtStmtOf("Return")
    /\ IF function_depth = 0
       THEN Raise("Runtime error: 'return' used outside of function")
       ELSE /\ kont' = Push([k |-> "Return", pc |-> "value"])
            /\ ctl' = AtExpr(ctl.s.expr)
            /\ UNCHANGED <<globals, call_stack, loop_depth, function_depth,
                           output, err>>

ReturnValue ==
    /\ Handed("Return", "value")
    /\ kont' = Pop
    /\ ctl' = Result(ReturnR(ctl.v))
    /\ UNCHANGED <<globals, call_stack, loop_depth, function_depth, output, err>>

\* -------------------------------------------------------------- eval_expr
EvalLiteral ==
    /\ Running(err) /\ ctl.m = "expr" /\ ctl.e.t \in {"Number", "Boolean", "Nil"}
    /\ ctl' = Value(CASE ctl.e.t = "Number" -> IntegerV(ctl.e.val)
                      [] ctl.e.t = "Boolean" -> BooleanV(ctl.e.val)
                      [] OTHER -> NilV)
    /\ UNCHANGED <<globals, call_stack, loop_depth, function_depth, output, kont, err>>

\* Expr::Variable(name) => self.get_variable(&name)
EvalVariable ==
    /\ AtExprOf("Variable")
    /\ LET res == GetVariable(globals, call_stack, ctl.e.name)
       IN  IF res.ok
           THEN /\ ctl' = Value(res.x)
                /\ UNCHANGED <<globals, call_stack, loop_depth, function_depth,
                               output, kont, err>>
           ELSE Raise(res.msg)

EvalUnary ==
    /\ AtExprOf("Unary")
    /\ kont' = Push([k |-> "Unary", pc |-> "right", op |-> ctl.e.op])
    /\ ctl' = AtExpr(ctl.e.right)
    /\ UNCHANGED <<globals, call_stack, loop_depth, function_depth, output, err>>

UnaryApply ==
    /\ Handed("Unary", "right")
    /\ LET res == ApplyUnary(Top.op, ctl.v)
       IN  IF res.ok
           THEN /\ kont' = Pop
                /\ ctl' = Value(res.x)
                /\ UNCHANGED <<globals, call_stack, loop_depth, function_depth,
                               output, err>>
           ELSE Raise(res.msg)

\* let l = self.eval_expr(*left)?
EvalBinary ==
    /\ AtExprOf("Binary")
    /\ kont' = Push([k |-> "Binary", pc |-> "left", op |-> ctl.e.op,
                     right |-> ctl.e.right, l |-> NilV])
    /\ ctl' = AtExpr(ctl.e.left)
    /\ UNCHANGED <<globals, call_stack, loop_depth, function_depth, output, err>>

\* the right operand gone wrong: `and` with a false left operand and `or`
\* with a true one yield the left operand and skip the right one
BinaryRightShortCircuits ==
    /\ Handed("Binary", "left")
    /\ IF /\ Top.op \in {"And", "Or"}
          /\ ctl.v.t = "Boolean" /\ ctl.v.v = (Top.op = "Or")
       THEN /\ kont' = Pop
            /\ ctl' = ctl
       ELSE /\ kont' = Replace([Top EXCEPT !.pc = "right", !.l = ctl.v])
            /\ ctl' = AtExpr(Top.right)
    /\ UNCHANGED <<globals, call_stack, loop_depth, function_depth, output, err>>

\* let r = self.eval_expr(*right)?
BinaryRight ==
    /\ Handed("Binary", "left")
    /\ kont' = Replace([Top EXCEPT !.pc = "right", !.l = ctl.v])
    /\ ctl' = AtExpr(Top.right)
    /\ UNCHANGED <<globals, call_stack, loop_depth, function_depth, output, err>>

BinaryApply ==
    /\ Handed("Binary", "right")
    /\ LET res == ApplyBinary(Top.op, Top.l, ctl.v)
       IN  /\ Representable(res)
           /\ IF res.ok
              THEN /\ kont' = Pop
                   /\ ctl' = Value(res.x)
                   /\ UNCHANGED <<globals, call_stack, loop_depth, function_depth,
                                  output, err>>
              ELSE Raise(res.msg)

\* ---------------------------------------------------- eval_expr: Expr::Call
\* the callee lookup, the function check and the arity check
EvalCall ==
    /\ AtExprOf("Call")
    /\ LET func_val == GetVariable(globals, call_stack, ctl.e.name)
       IN  IF ~func_val.ok
           THEN Raise(func_val.msg)
           ELSE IF func_val.x.t # "Function"
           THEN Raise("Runtime Error: '" \o ctl.e.name \o "' is not a function.")
           ELSE IF Len(ctl.e.args) # Len(func_val.x.params)
           THEN Raise("Runtime error: expected " \o ToString(Len(func_val.x.params))
                      \o " argument, got " \o ToString(Len(ctl.e.args)))
           ELSE /\ kont' = Push([k |-> "Call", pc |-> "args",
                                 params |-> func_val.x.params,
                                 args |-> ctl.e.args, arg_vals |-> <<>>,
                                 rest |-> func_val.x.body,
                                 old_loop_depth |-> 0,
                                 entry_frames |-> 0, entry_function_depth |-> 0])
                /\ ctl' = Iter
                /\ UNCHANGED <<globals, call_stack, loop_depth, function_depth,
                               output, err>>

\* the arguments of the Call activation evaluated so far
ArgVals == IF ctl.m = "value" THEN Append(Top.arg_vals, ctl.v) ELSE Top.arg_vals

InArgs ==
    /\ Running(err) /\ kont # <<>> /\ Top.k = "Call" /\ Top.pc = "args"
    /\ ctl.m \in {"iter", "value"}

\* the argument loop gone wrong: the arguments are evaluated last to first
CallArgRightToLeft ==
    /\ InArgs /\ Top.args # <<>>
    /\ kont' = Replace([Top EXCEPT !.args = SubSeq(@, 1, Len(@) - 1),
                                   !.arg_vals = ArgVals])
    /\ ctl' = AtExpr(Top.args[Len(Top.args)])
    /\ UNCHANGED <<globals, call_stack, loop_depth, function_depth, output, err>>

\* for arg in args { arg_vals.push(self.eval_expr(arg)?); }
CallArg ==
    /\ InArgs /\ Top.args # <<>>
    /\ kont' = Replace([Top EXCEPT !.args = Tail(@), !.arg_vals = ArgVals])
    /\ ctl' = AtExpr(Head(Top.args))
    /\ UNCHANGED <<globals, call_stack, loop_depth, function_depth, output, err>>

\* new_frame[0].insert(param, Variable { value, mutable: false }) for each pair
RECURSIVE BindParams(_, _, _)
BindParams(scope, params, vals) ==
    IF params = <<>> THEN scope
    ELSE BindParams(Insert(scope, Head(params), VariableB(Head(vals), FALSE)),
                    Tail(params), Tail(vals))

\* the call entry gone wrong: loop_depth is not reset for the callee
CallEnterKeepsLoopDepth ==
    /\ InArgs /\ Top.args = <<>>
    /\ Len(call_stack) < MaxFrames
    /\ call_stack' = Append(call_stack, <<BindParams(EmptyMap, Top.params, ArgVals)>>)
    /\ function_depth' = function_depth + 1
    /\ kont' = Replace([Top EXCEPT !.pc = "body", !.arg_vals = ArgVals,
                          !.old_loop_depth = loop_depth,
                          !.entry_frames = Len(call_stack),
                          !.entry_function_depth = function_depth])
    /\ ctl' = Iter
    /\ UNCHANGED <<globals, loop_depth, output, err>>

\* push the frame, function_depth += 1, save and reset loop_depth
CallEnter ==
    /\ InArgs /\ Top.args = <<>>
    /\ Len(call_stack) < MaxFrames
    /\ call_stack' = Append(call_stack, <<BindParams(EmptyMap, Top.params, ArgVals)>>)
    /\ function_depth' = function_depth + 1
    /\ loop_depth' = 0
    /\ kont' = Replace([Top EXCEPT !.pc = "body", !.arg_vals = ArgVals,
                          !.old_loop_depth = loop_depth,
                          !.entry_frames = Len(call_stack),
                          !.entry_function_depth = function_depth])
    /\ ctl' = Iter
    /\ UNCHANGED <<globals, output, err>>

\* the end of a call gone wrong: function_depth is not decremented
CallLeaveKeepsDepth(return_val) ==
    /\ loop_depth' = Top.old_loop_depth
    /\ call_stack' = SubSeq(call_stack, 1, Len(call_stack) - 1)
    /\ kont' = Pop
    /\ ctl' = Value(return_val)
    /\ UNCHANGED <<globals, function_depth, output, err>>

\* restore loop_depth, function_depth -= 1, call_stack.pop(), Ok(return_val)
CallLeave(return_val) ==
    /\ loop_depth' = Top.old_loop_depth
    /\ function_depth' = function_depth - 1
    /\ call_stack' = SubSeq(call_stack, 1, Len(call_stack) - 1)
    /\ kont' = Pop
    /\ ctl' = Value(return_val)
    /\ UNCHANGED <<globals, output, err>>

\* for stmt in body: Normal => {}, and the `_ => {}` arm for Break / Continue
CallNext ==
    /\ Running(err) /\ kont # <<>> /\ Top.k = "Call" /\ Top.pc = "body"
    /\ \/ ctl.m = "iter"
       \/ ctl.m = "result" /\ ctl.r.t \in {"Normal", "Break", "Continue"}
    /\ IF Top.rest = <<>>
       THEN CallLeave(NilV)
       ELSE /\ ctl' = AtStmt(Head(Top.rest))
            /\ kont' = Replace([Top EXCEPT !.rest = Tail(@)])
            /\ UNCHANGED <<globals, call_stack, loop_depth, function_depth,
                           output, err>>

\* ExecutionResult::Return(v) => { return_val = v; break; }
CallReturn ==
    /\ Running(err) /\ kont # <<>> /\ Top.k = "Call" /\ Top.pc = "body"
    /\ ctl.m = "result" /\ ctl.r.t = "Return"
    /\ CallLeave(ctl.r.v)

\* ------------------------------------------------------- lexer.rs: Token
Tok(t) == [t |-> t]
IdentifierT(name) == [t |-> "Identifier", name |-> name]
NumberT(val) == [t |-> "Number", val |-> val]


\* --------------------------------------------------------------- lexer.rs
\* Lexer.input is a sequence of characters, Lexer.position counts from 0
Digits == {"0", "1", "2", "3", "4", "5", "6", "7", "8", "9"}
Letters ==
    {"a", "b", "c", "d", "e", "f", "g", "h", "i", "j", "k", "l", "m", "n", "o",
     "p", "q", "r", "s", "t", "u", "v", "w", "x", "y", "z", "A", "B", "C", "D",
     "E", "F", "G", "H", "I", "J", "K", "L", "M", "N", "O", "P", "Q", "R", "S",
     "T", "U", "V", "W", "X", "Y", "Z"}
Whitespace == {" ", "\t", "\n", "\r"}
CharAt(input, position) == input[position + 1]

\* what next_token returns, and where it leaves the cursor; panic!
Lexed(tok, position) == [ok |-> TRUE, tok |-> tok, position |-> position]
LexPanic == [ok |-> FALSE]

\* match_char
MatchChar(input, position, expected) ==
    IF position >= Len(input) THEN [matched |-> FALSE, position |-> position]
    ELSE IF CharAt(input, position) # expected
    THEN [matched |-> FALSE, position |-> position]
    ELSE [matched |-> TRUE, position |-> position + 1]

RECURSIVE SkipWhitespace(_, _), LineComment(_, _), BlockComment(_, _),
          NumberEnd(_, _), IdentifierEnd(_, _), NumberValue(_, _, _),
          Text(_, _, _), NextToken(_, _)

\* skip_whitespace
SkipWhitespace(input, position) ==
    IF position < Len(input) /\ CharAt(input, position) \in Whitespace
    THEN SkipWhitespace(input, position + 1)
    ELSE position

\* while position < len && input[position] != '\n' { advance() }
LineComment(input, position) ==
    IF position < Len(input) /\ CharAt(input, position) # "\n"
    THEN LineComment(input, position + 1)
    ELSE position

\* the block comment gone wrong: the character after a `*` that does not
\* close the comment is skipped unseen
BlockCommentSkipsAfterStar(input, position) ==
    IF position >= Len(input) THEN position
    ELSE IF CharAt(input, position) = "*"
    THEN LET close == MatchChar(input, position + 1, "/")
         IN  IF close.matched THEN close.position
             ELSE IF position + 1 < Len(input) THEN BlockComment(input, position + 2)
             ELSE position + 1
    ELSE BlockComment(input, position + 1)

\* loop { if position >= len { break } if input[position] == '*' { advance();
\* if match_char('/') { break } } else { advance() } }
BlockComment(input, position) ==
    IF position >= Len(input) THEN position
    ELSE IF CharAt(input, position) = "*"
    THEN LET close == MatchChar(input, position + 1, "/")
         IN  IF close.matched THEN close.position
             ELSE BlockComment(input, close.position)
    ELSE BlockComment(input, position + 1)

\* read_number: the end of the digits, and the value they parse to
NumberEnd(input, position) ==
    IF position < Len(input) /\ CharAt(input, position) \in Digits
    THEN NumberEnd(input, position + 1)
    ELSE position
DigitValue(c) ==
    CASE c = "0" -> 0 [] c = "1" -> 1 [] c = "2" -> 2 [] c = "3" -> 3
      [] c = "4" -> 4 [] c = "5" -> 5 [] c = "6" -> 6 [] c = "7" -> 7
      [] c = "8" -> 8 [] OTHER -> 9
NumberValue(input, start, end) ==
    IF start >= end THEN 0
    ELSE 10 * NumberValue(input, start, end - 1) + DigitValue(CharAt(input, end - 1))
ReadNumber(input, position) ==
    LET end == NumberEnd(input, position)
    IN  Lexed(NumberT(NumberValue(input, position, end)), end)

\* read_identifier: the end of the word, its text, and the keyword table
IdentifierEnd(input, position) ==
    IF /\ position < Len(input)
       /\ CharAt(input, position) \in Letters \cup Digits \cup {"_"}
    THEN IdentifierEnd(input, position + 1)
    ELSE position
Text(input, start, end) ==
    IF start >= end THEN ""
    ELSE Text(input, start, end - 1) \o CharAt(input, end - 1)
Keyword(text) ==
    CASE text = "let" -> Tok("Let")           [] text = "mod" -> Tok("Mod")
      [] text = "print" -> Tok("Print")       [] text = "if" -> Tok("If")
      [] text = "then" -> Tok("Then")         [] text = "else" -> Tok("Else")
      [] text = "elseif" -> Tok("ElseIf")     [] text = "end" -> Tok("End")
      [] text = "while" -> Tok("While")       [] text = "do" -> Tok("Do")
      [] text = "loop" -> Tok("Loop")         [] text = "break" -> Tok("Break")
      [] text = "continue" -> Tok("Continue") [] text = "fn" -> Tok("Fn")
      [] text = "return" -> Tok("Return")     [] text = "nil" -> Tok("Nil")
      [] text = "true" -> Tok("True")         [] text = "false" -> Tok("False")
      [] text = "and" -> Tok("And")           [] text = "or" -> Tok("Or")
      [] text = "not" -> Tok("Not")           [] OTHER -> IdentifierT(text)
ReadIdentifier(input, position) ==
    LET end == IdentifierEnd(input, position)
    IN  Lexed(Keyword(Text(input, position, end)), end)

\* advance(); if match_char(second) { both } else { single }
OneOrTwo(input, position, second, both, single) ==
    LET m == MatchChar(input, position + 1, second)
    IN  IF m.matched THEN Lexed(Tok(both), m.position)
        ELSE IF single = "" THEN LexPanic ELSE Lexed(Tok(single), m.position)

\* next_token
NextToken(input, position) ==
    LET at == SkipWhitespace(input, position)
    IN  IF at >= Len(input) THEN Lexed(Tok("EOF"), at)
        ELSE LET ch == CharAt(input, at)
             IN  CASE ch \in Digits -> ReadNumber(input, at)
                   [] ch \in Letters \cup {"_"} -> ReadIdentifier(input, at)
                   [] ch = "+" -> Lexed(Tok("Plus"), at + 1)
                   [] ch = "-" -> Lexed(Tok("Minus"), at + 1)
                   [] ch = "*" -> Lexed(Tok("Star"), at + 1)
                   [] ch = "/" ->
                         LET line == MatchChar(input, at + 1, "/")
                             block == MatchChar(input, at + 1, "*")
                         IN  IF line.matched
                             THEN NextToken(input, LineComment(input, line.position))
                             ELSE IF block.matched
                             THEN NextToken(input, BlockComment(input, block.position))
                             ELSE Lexed(Tok("Slash"), at + 1)
                   [] ch = "%" -> Lexed(Tok("Percent"), at + 1)
                   [] ch = "(" -> Lexed(Tok("LParen"), at + 1)
                   [] ch = ")" -> Lexed(Tok("RParen"), at + 1)
                   [] ch = "," -> Lexed(Tok("Comma"), at + 1)
                   [] ch = "=" -> OneOrTwo(input, at, "=", "EqualEqual", "Equal")
                   [] ch = "!" -> OneOrTwo(input, at, "=", "BangEqual", "")
                   [] ch = "<" -> OneOrTwo(input, at, "=", "LessEqual", "Less")
                   [] ch = ">" -> OneOrTwo(input, at, "=", "GreaterEqual", "Greater")
                   [] OTHER -> LexPanic

\* -------------------------------------------------------------- parser.rs
\* Parser.current_token once p - 1 tokens are consumed: the lexer hands out
\* the tokens of ts in order and Token::EOF from then on
Cur(ts, p) == IF p <= Len(ts) THEN ts[p] ELSE Tok("EOF")

\* a parse result: the node built and the position after it; Panic is panic!
Parsed(node, p) == [ok |-> TRUE, node |-> node, p |-> p]
Panic == [ok |-> FALSE]

\* eat(token): the discriminants match and the parser advances, else panic!
Eat(ts, p, t) == IF Cur(ts, p).t = t THEN Parsed(Nil, p + 1) ELSE Panic

\* check_end_of_block
CheckEndOfBlock(ts, p) == Cur(ts, p).t \in {"End", "Else", "ElseIf", "EOF"}

\* the Op each operator token is mapped to
OpOf(t) ==
    CASE t = "EqualEqual" -> "Equal"  [] t = "BangEqual" -> "NotEqual"
      [] t = "Less" -> "Lt"           [] t = "LessEqual" -> "LtEq"
      [] t = "Greater" -> "Gt"        [] t = "GreaterEqual" -> "GtEq"
      [] t = "Plus" -> "Add"          [] t = "Minus" -> "Sub"
      [] t = "Star" -> "Mul"          [] t = "Slash" -> "Div"
      [] t = "Percent" -> "Mod"       [] t = "And" -> "And"
      [] OTHER -> "Or"

\* what was parsed, then eat(token)
EatAfter(ts, parsed, t) ==
    IF parsed.ok /\ Cur(ts, parsed.p).t = t THEN Parsed(parsed.node, parsed.p + 1)
    ELSE Panic

\* left = Expr::Binary(Box::new(left), op, Box::new(right)), at the position
\* the right operand ended; a panic! in the operand goes on
BinaryBuilt(left, op, right) ==
    IF right.ok THEN Parsed(Binary(left, op, right.node), right.p) ELSE Panic

\* vec.push(parsed), at the position the pushed item ended
Pushed(vec, parsed) ==
    IF parsed.ok THEN Parsed(Append(vec, parsed.node), parsed.p) ELSE Panic

RECURSIVE ParseLogicOr(_, _), LogicOrLoop(_, _), ParseLogicAnd(_, _),
          LogicAndLoop(_, _), ParseEquality(_, _), EqualityLoop(_, _),
          ParseRelational(_, _), RelationalLoop(_, _), ParseTerm(_, _),
          TermLoop(_, _), ParseFactor(_, _), FactorLoop(_, _),
          ParseUnary(_, _), ParsePrimary(_, _), ParseArguments(_, _),
          ArgumentsLoop(_, _)

\* parse_expr
ParseExpr(ts, p) == ParseLogicOr(ts, p)

\* parse_logic_or: while self.current_token == Token::Or { .. }, entered
\* with the left operand as parsed so far
LogicOrLoop(ts, left) ==
    IF ~left.ok THEN Panic
    ELSE IF Cur(ts, left.p).t = "Or"
    THEN LogicOrLoop(ts, BinaryBuilt(left.node, "Or",
                                     ParseLogicAnd(ts, left.p + 1)))
    ELSE left
ParseLogicOr(ts, p) == LogicOrLoop(ts, ParseLogicAnd(ts, p))

\* parse_logic_and
LogicAndLoop(ts, left) ==
    IF ~left.ok THEN Panic
    ELSE IF Cur(ts, left.p).t = "And"
    THEN LogicAndLoop(ts, BinaryBuilt(left.node, "And",
                                      ParseEquality(ts, left.p + 1)))
    ELSE left
ParseLogicAnd(ts, p) == LogicAndLoop(ts, ParseEquality(ts, p))

\* parse_equality
EqualityLoop(ts, left) ==
    IF ~left.ok THEN Panic
    ELSE IF Cur(ts, left.p).t \in {"EqualEqual", "BangEqual"}
    THEN EqualityLoop(ts, BinaryBuilt(left.node, OpOf(Cur(ts, left.p).t),
                                      ParseRelational(ts, left.p + 1)))
    ELSE left
ParseEquality(ts, p) == EqualityLoop(ts, ParseRelational(ts, p))

\* parse_relational
RelationalLoop(ts, left) ==
    IF ~left.ok THEN Panic
    ELSE IF Cur(ts, left.p).t \in {"Less", "LessEqual", "Greater", "GreaterEqual"}
    THEN RelationalLoop(ts, BinaryBuilt(left.node, OpOf(Cur(ts, left.p).t),
                                        ParseTerm(ts, left.p + 1)))
    ELSE left
ParseRelational(ts, p) == RelationalLoop(ts, ParseTerm(ts, p))

\* parse_term gone wrong: the right operand is a whole term, so that
\* a - b - c groups to the right
TermLoopRightAssoc(ts, left) ==
    IF ~left.ok THEN Panic
    ELSE IF Cur(ts, left.p).t \in {"Plus", "Minus"}
    THEN BinaryBuilt(left.node, OpOf(Cur(ts, left.p).t), ParseTerm(ts, left.p + 1))
    ELSE left

\* parse_term
TermLoop(ts, left) ==
    IF ~left.ok THEN Panic
    ELSE IF Cur(ts, left.p).t \in {"Plus", "Minus"}
    THEN TermLoop(ts, BinaryBuilt(left.node, OpOf(Cur(ts, left.p).t),
                                  ParseFactor(ts, left.p + 1)))
    ELSE left
ParseTerm(ts, p) == TermLoop(ts, ParseFactor(ts, p))

\* parse_factor
FactorLoop(ts, left) ==
    IF ~left.ok THEN Panic
    ELSE IF Cur(ts, left.p).t \in {"Star", "Slash", "Percent"}
    THEN FactorLoop(ts, BinaryBuilt(left.node, OpOf(Cur(ts, left.p).t),
                                    ParseUnary(ts, left.p + 1)))
    ELSE left
ParseFactor(ts, p) == FactorLoop(ts, ParseUnary(ts, p))

\* parse_unary
ParseUnary(ts, p) ==
    IF Cur(ts, p).t = "Not"
    THEN LET expr == ParseUnary(ts, p + 1)
         IN  IF expr.ok THEN Parsed(Unary("Not", expr.node), expr.p) ELSE Panic
    ELSE ParsePrimary(ts, p)

\* parse_arguments: the loop, after args.push(self.parse_expr())
ArgumentsLoop(ts, args) ==
    IF ~args.ok THEN Panic
    ELSE IF Cur(ts, args.p).t = "Comma"
    THEN ArgumentsLoop(ts, Pushed(args.node, ParseExpr(ts, args.p + 1)))
    ELSE args
ParseArguments(ts, p) ==
    IF Cur(ts, p).t # "RParen" THEN ArgumentsLoop(ts, Pushed(<<>>, ParseExpr(ts, p)))
    ELSE Parsed(<<>>, p)

\* parse_primary
ParsePrimary(ts, p) ==
    LET tok == Cur(ts, p)
    IN  CASE tok.t = "Number" -> Parsed(Number(tok.val), p + 1)
          [] tok.t = "True" -> Parsed(Boolean(TRUE), p + 1)
          [] tok.t = "False" -> Parsed(Boolean(FALSE), p + 1)
          [] tok.t = "Nil" -> Parsed(Nil, p + 1)
          [] tok.t = "Identifier" ->
                IF Cur(ts, p + 1).t = "LParen"
                THEN LET args == EatAfter(ts, ParseArguments(ts, p + 2), "RParen")
                     IN  IF args.ok THEN Parsed(Call(tok.name, args.node), args.p)
                         ELSE Panic
                ELSE Parsed(Variable(tok.name), p + 1)
          [] tok.t = "LParen" -> EatAfter(ts, ParseExpr(ts, p + 1), "RParen")
          [] OTHER -> Panic

RECURSIVE ParseStatement(_, _), BlockLoop(_, _), ElseLoop(_, _), ElseSlot(_, _),
          IfAfterCondition(_, _), IfAfterThen(_, _, _), ParseIf(_, _),
          ParseRecursiveElseif(_, _), ParamsLoop(_, _, _)

\* while !self.check_end_of_block() { body.push(self.parse_statement()) },
\* entered with the body as parsed so far
BlockLoop(ts, body) ==
    IF ~body.ok THEN Panic
    ELSE IF CheckEndOfBlock(ts, body.p) THEN body
    ELSE BlockLoop(ts, Pushed(body.node, ParseStatement(ts, body.p)))

\* eat(token); let mut body = Vec::new(); the loop up to the end of block
ParseBlock(ts, p, t) == BlockLoop(ts, EatAfter(ts, Parsed(<<>>, p), t))

\* while current_token != End && current_token != EOF { stmts.push(..) }
ElseLoop(ts, stmts) ==
    IF ~stmts.ok THEN Panic
    ELSE IF Cur(ts, stmts.p).t \in {"End", "EOF"} THEN stmts
    ELSE ElseLoop(ts, Pushed(stmts.node, ParseStatement(ts, stmts.p)))

\* the else slot gone wrong: every elseif asks for an `end` of its own
ElseSlotOwnEnd(ts, p) ==
    CASE Cur(ts, p).t = "ElseIf" ->
            LET inner == EatAfter(ts, ParseRecursiveElseif(ts, p), "End")
            IN  IF inner.ok THEN Parsed(Some(<<inner.node>>), inner.p) ELSE Panic
      [] Cur(ts, p).t = "Else" ->
            LET stmts == EatAfter(ts, ElseLoop(ts, Parsed(<<>>, p + 1)), "End")
            IN  IF stmts.ok THEN Parsed(Some(stmts.node), stmts.p) ELSE Panic
      [] OTHER -> EatAfter(ts, Parsed(None, p), "End")

\* the else slot that parse_if (after the first elseif) and
\* parse_recursive_elseif build from the token after a branch
ElseSlot(ts, p) ==
    CASE Cur(ts, p).t = "ElseIf" ->
            LET inner == ParseRecursiveElseif(ts, p)
            IN  IF inner.ok THEN Parsed(Some(<<inner.node>>), inner.p) ELSE Panic
      [] Cur(ts, p).t = "Else" ->
            LET stmts == EatAfter(ts, ElseLoop(ts, Parsed(<<>>, p + 1)), "End")
            IN  IF stmts.ok THEN Parsed(Some(stmts.node), stmts.p) ELSE Panic
      [] OTHER -> EatAfter(ts, Parsed(None, p), "End")

\* the else slot that follows the branch parsed, and the Stmt::If
IfAfterThen(ts, condition, then_branch) ==
    LET else_branch == ElseSlot(ts, then_branch.p)
    IN  IF then_branch.ok /\ else_branch.ok
        THEN Parsed(If(condition, then_branch.node, else_branch.node),
                    else_branch.p)
        ELSE Panic

\* eat(Then); the branch up to check_end_of_block
IfAfterCondition(ts, condition) ==
    IF condition.ok
    THEN IfAfterThen(ts, condition.node, ParseBlock(ts, condition.p, "Then"))
    ELSE Panic

\* eat(ElseIf); cond; eat(Then); branch; else slot: the shape shared by
\* parse_recursive_elseif and the first elseif handled inside parse_if
ParseRecursiveElseif(ts, p) == IfAfterCondition(ts, ParseExpr(ts, p + 1))

\* parse_if
ParseIf(ts, p) == IfAfterCondition(ts, ParseExpr(ts, p + 1))

\* parse_while
ParseWhile(ts, p) ==
    LET condition == ParseExpr(ts, p + 1)
    IN  IF condition.ok
        THEN LET body == EatAfter(ts, ParseBlock(ts, condition.p, "Do"), "End")
             IN  IF body.ok THEN Parsed(While(condition.node, body.node), body.p)
                 ELSE Panic
        ELSE Panic

\* parse_loop
ParseLoop(ts, p) ==
    LET body == EatAfter(ts, ParseBlock(ts, p + 1, "Do"), "End")
    IN  IF body.ok THEN Parsed(Loop(body.node), body.p) ELSE Panic

\* parse_fn: the parameter loop that follows a first token other than RParen
ParamsLoop(ts, params, p) ==
    IF Cur(ts, p).t # "Identifier" THEN Panic
    ELSE IF Cur(ts, p + 1).t = "Comma"
    THEN ParamsLoop(ts, Append(params, Cur(ts, p).name), p + 2)
    ELSE Parsed(Append(params, Cur(ts, p).name), p + 1)

\* parse_fn
ParseFn(ts, p) ==
    LET name == Eat(ts, p + 1, "Identifier")
        open == Eat(ts, name.p, "LParen")
        params == IF Cur(ts, open.p).t # "RParen" THEN ParamsLoop(ts, <<>>, open.p)
                  ELSE Parsed(<<>>, open.p)
        close == Eat(ts, params.p, "RParen")
        body == EatAfter(ts, ParseBlock(ts, close.p, "Do"), "End")
    IN  IF name.ok /\ open.ok /\ params.ok /\ close.ok /\ body.ok
        THEN Parsed(Fn(Cur(ts, p + 1).name, params.node, body.node), body.p)
        ELSE Panic

\* parse_return
ParseReturn(ts, p) ==
    IF Cur(ts, p + 1).t \in {"End", "Else", "ElseIf", "EOF", "Let", "Print", "If",
                             "While", "Loop", "Break", "Continue", "Fn", "Return"}
    THEN Parsed(Return(Nil), p + 1)
    ELSE LET expr == ParseExpr(ts, p + 1)
         IN  IF expr.ok THEN Parsed(Return(expr.node), expr.p) ELSE Panic

\* parse_let
ParseLet(ts, p) ==
    LET mutable == Cur(ts, p + 1).t = "Mod"
        at == IF mutable THEN p + 2 ELSE p + 1
        name == Eat(ts, at, "Identifier")
        equal == Eat(ts, name.p, "Equal")
        value == ParseExpr(ts, equal.p)
    IN  IF name.ok /\ equal.ok /\ value.ok
        THEN Parsed(Let(Cur(ts, at).name, mutable, value.node), value.p)
        ELSE Panic

\* parse_print
ParsePrint(ts, p) ==
    LET open == Eat(ts, p + 1, "LParen")
        expr == EatAfter(ts, ParseExpr(ts, open.p), "RParen")
    IN  IF open.ok /\ expr.ok THEN Parsed(PrintStmt(expr.node), expr.p) ELSE Panic

\* parse_identifier_stmt
ParseIdentifierStmt(ts, p) ==
    CASE Cur(ts, p + 1).t = "Equal" ->
            LET value == ParseExpr(ts, p + 2)
            IN  IF value.ok THEN Parsed(Assign(Cur(ts, p).name, value.node), value.p)
                ELSE Panic
      [] Cur(ts, p + 1).t = "LParen" ->
            LET args == EatAfter(ts, ParseArguments(ts, p + 2), "RParen")
            IN  IF args.ok
                THEN Parsed(ExprStmt(Call(Cur(ts, p).name, args.node)), args.p)
                ELSE Panic
      [] OTHER -> Panic

\* parse_statement
ParseStatement(ts, p) ==
    LET t == Cur(ts, p).t
    IN  CASE t = "Let" -> ParseLet(ts, p)
          [] t = "Print" -> ParsePrint(ts, p)
          [] t = "If" -> ParseIf(ts, p)
          [] t = "While" -> ParseWhile(ts, p)
          [] t = "Loop" -> ParseLoop(ts, p)
          [] t = "Break" -> Parsed(Break, p + 1)
          [] t = "Continue" -> Parsed(Continue, p + 1)
          [] t = "Return" -> ParseReturn(ts, p)
          [] t = "Fn" -> ParseFn(ts, p)
          [] t = "Identifier" -> ParseIdentifierStmt(ts, p)
          [] OTHER -> Panic

\* parse_program: while self.current_token != Token::EOF { .. }
RECURSIVE ProgramLoop(_, _)
ProgramLoop(ts, statements) ==
    IF ~statements.ok THEN Panic
    ELSE IF Cur(ts, statements.p).t = "EOF" THEN statements
    ELSE ProgramLoop(ts, Pushed(statements.node, ParseStatement(ts, statements.p)))
ParseProgram(ts) == ProgramLoop(ts, Parsed(<<>>, 1))

\* ---------------------------------------------------------------- main.rs
\* Parser::new and Parser::eat: self.lexer.next_token() hands the parser its
\* next token, until Token::EOF has been handed out
LexToken ==
    /\ ctl = AtMain /\ Top.k = "main" /\ Top.pc = "lex"
    /\ LET next == NextToken(Top.input, Top.position)
       IN  IF next.ok
           THEN /\ kont' = <<[Top EXCEPT !.position = next.position,
                                         !.source = Append(@, next.tok),
                                         !.pc = IF next.tok.t = "EOF" THEN "lexed"
                                                ELSE "lex"]>>
                /\ ctl' = AtMain
           ELSE /\ kont' = kont
                /\ ctl' = Panicked
    /\ UNCHANGED <<globals, call_stack, loop_depth, function_depth, output, err>>

\* let program = parser.parse_program(); interpreter.interpret(program):
\* a panic! of the parser ends the process before anything is interpreted
Main ==
    /\ ctl = AtMain /\ Top.k = "main" /\ Top.pc = "parse"
    /\ \E program \in {ParseProgram(Top.source)} :
           IF program.ok
           THEN /\ kont' = <<[k |-> "interpret", pc |-> "body",
                              rest |-> program.node],
                             [Top EXCEPT !.pc = "interpret"]>>
                /\ ctl' = Iter
           ELSE /\ kont' = kont
                /\ ctl' = Panicked
    /\ UNCHANGED <<globals, call_stack, loop_depth, function_depth, output, err>>

\* ------------------------------------------------------------ the programs
\* The statements a body is made of: declarations, assignment and lookup of
\* x, the three control statements, a call, a function declaration and a
\* print whose argument fails.
Leaves ==
    { Let("x", FALSE, Number(1)),
      Let("x", TRUE, Number(2)),
      Assign("x", Number(3)),
      PrintStmt(Variable("x")),
      Break,
      Continue,
      Return(Number(4)),
      ExprStmt(Call("g", <<>>)),
      Fn("g", <<>>, <<Return(Number(5))>>),
      PrintStmt(Binary(Number(1), "Div", Number(0))) }

RECURSIVE SeqsUpTo(_, _)
SeqsUpTo(S, n) ==
    IF n = 0 THEN {<<>>}
    ELSE LET shorter == SeqsUpTo(S, n - 1)
         IN  shorter \cup {Append(b, l) : b \in shorter, l \in S}

Bodies == SeqsUpTo(Leaves, MaxBodyLen) \ {<<>>}

GX == Let("x", TRUE, Number(0))            \* let mod x = 0
PX == PrintStmt(Variable("x"))             \* print(x)
PG == PrintStmt(Call("g", <<>>))           \* print(g())
PF == PrintStmt(Call("f", <<Number(7)>>))  \* print(f(7))
XIs(n) == Binary(Variable("x"), "Equal", Number(n))
Once(B) == While(XIs(0), <<Assign("x", Number(1))>> \o B)
Block(B) == If(Boolean(TRUE), B, None)

ContextNames ==
    { "Top", "TopX", "If", "Else", "IfIf", "While", "Loop", "LoopIf", "WhileLoop",
      "Fn", "FnX", "FnG", "FnIf", "FnLetIf", "FnParamIf", "FnLoop", "FnWhile",
      "LoopCall", "WhileCall", "Nested", "NestedX", "Recursive" }

\* the program that places body B in the context named c
Context(c, B) ==
    CASE c = "Top" -> B
      [] c = "TopX" -> <<GX>> \o B \o <<PX>>
      [] c = "If" -> <<GX, Block(B), PX, PG>>
      [] c = "Else" -> <<GX, If(Unary("Not", Boolean(TRUE)), <<>>, Some(B)), PX>>
      [] c = "IfIf" -> <<GX, Block(<<Block(B), PX>>), PX>>
      [] c = "While" -> <<GX, Once(B), PX>>
      [] c = "Loop" -> <<GX, Loop(B \o <<Break>>), PX>>
      [] c = "LoopIf" -> <<GX, Loop(<<Block(B), Break>>), PX>>
      [] c = "WhileLoop" -> <<GX, Once(<<Loop(B \o <<Break>>), PX>>), PX>>
      [] c = "Fn" -> <<Fn("f", <<"x">>, B), PF, PG>>
      [] c = "FnX" -> <<GX, Fn("f", <<"x">>, B), PF, PX, PG>>
      [] c = "FnG" -> <<GX, Fn("g", <<>>, B), PG, PX>>
      [] c = "FnIf" -> <<GX, Fn("g", <<>>, <<Block(B), PX>>), PG, PX>>
      [] c = "FnLetIf" -> <<Fn("g", <<>>, <<GX, Block(B), PX>>), PG>>
      [] c = "FnParamIf" -> <<Fn("f", <<"x">>, <<Block(B), PX>>), PF, PG>>
      [] c = "FnLoop" -> <<GX, Fn("g", <<>>, <<Loop(<<Block(B), Break>>), PX>>), PG, PX>>
      [] c = "FnWhile" -> <<GX, Fn("g", <<>>, <<Once(B), PX>>), PG, PX>>
      [] c = "LoopCall" -> <<GX, Fn("g", <<>>, B), Loop(<<PG, Break>>), PX>>
      [] c = "WhileCall" -> <<GX, Fn("g", <<>>, B), Once(<<PG, Continue>>), PX>>
      [] c = "Nested" ->
            <<Fn("g", <<>>, B),
              Fn("f", <<"x">>, <<Block(<<Let("x", TRUE, Number(8)), PG, PX>>), PX>>),
              PF>>
      [] c = "NestedX" ->
            <<GX, Fn("g", <<>>, B),
              Fn("f", <<"x">>, <<Block(<<Let("x", TRUE, Number(8)), PG, PX>>), PX>>),
              PF, PX>>
      [] OTHER ->
            <<Fn("f", <<"x">>,
                 <<If(XIs(7),
                      <<Let("x", TRUE, Number(9)),
                        PrintStmt(Call("f", <<Number(8)>>)), PX>>,
                      Some(B)),
                   PX>>),
              PF>>

\* while statements whose condition is false when first evaluated: a literal,
\* a comparison, one inside a block of a function, and a call that assigns
FalseWhiles ==
    UNION {{ <<GX, While(Boolean(FALSE), <<l>>), PX>>,
             <<GX, While(XIs(1), <<l>>), PX>>,
             <<GX, Fn("g", <<>>, <<Let("x", TRUE, Number(8)),
                                   Block(<<While(XIs(0), <<l>>), PX>>)>>),
               PG, PX>>,
             <<GX, Fn("g", <<>>, <<Assign("x", Number(3)), Return(XIs(0))>>),
               While(Call("g", <<>>), <<l>>), PX>> } : l \in Leaves}

\* print(a / b) and print(a % b) for small integers; a negative operand is
\* written 0 - n, there being no negative literal
Lit(a) == IF a >= 0 THEN Number(a) ELSE Binary(Number(0), "Sub", Number(-a))
Divisions ==
    {<<PrintStmt(Binary(Lit(a), op, Lit(b)))>> :
        a \in -MaxDividend..MaxDividend, b \in -MaxDividend..MaxDividend,
        op \in {"Div", "Mod"}}

\* a statement inside an if inside a loop inside a loop
NestedLoops ==
    UNION {{ <<GX, Once(<<Loop(<<Block(<<l>>), PX, Break>>), PX>>), PX>>,
             <<GX, Loop(<<Once(<<Block(<<l>>), PX>>), PX, Break>>), PX>>,
             <<GX, Loop(<<Loop(<<Block(<<l>>), Break>>), PX, Break>>), PX>> } :
              l \in Leaves}

Programs ==
    {Context(c, B) : c \in ContextNames, B \in Bodies}
    \cup FalseWhiles \cup Divisions \cup NestedLoops

\* Token streams main parses. An if chain: fn c(n, b) do print(n) return b end;
\* if c(1, b1) then print(11) print(21) elseif c(2, b2) then print(12)
\* print(22) .. [else print(10) print(20)] end print(99): every condition
\* prints its index when it is evaluated, every branch prints two markers.
CallC(i, b) ==
    <<IdentifierT("c"), Tok("LParen"), NumberT(i), Tok("Comma"),
      Tok(IF b THEN "True" ELSE "False"), Tok("RParen")>>
PrintN(n) == <<Tok("Print"), Tok("LParen"), NumberT(n), Tok("RParen")>>
Branch(i) == PrintN(10 + i) \o PrintN(20 + i)
FnC ==
    <<Tok("Fn"), IdentifierT("c"), Tok("LParen"), IdentifierT("n"), Tok("Comma"),
      IdentifierT("b"), Tok("RParen"), Tok("Do"), Tok("Print"), Tok("LParen"),
      IdentifierT("n"), Tok("RParen"), Tok("Return"), IdentifierT("b"), Tok("End")>>

RECURSIVE ElseIfs(_, _)
ElseIfs(conds, i) ==
    IF i > Len(conds) THEN <<>>
    ELSE <<Tok("ElseIf")>> \o CallC(i, conds[i]) \o <<Tok("Then")>> \o Branch(i)
         \o ElseIfs(conds, i + 1)

ChainSource(ch) ==
    FnC \o <<Tok("If")>> \o CallC(1, ch.conds[1]) \o <<Tok("Then")>> \o Branch(1)
    \o ElseIfs(ch.conds, 2)
    \o (IF ch.has_else THEN <<Tok("Else")>> \o Branch(0) ELSE <<>>)
    \o <<Tok("End")>> \o PrintN(99)

Chains ==
    {[conds |-> c, has_else |-> e] :
        c \in SeqsUpTo(BOOLEAN, MaxChain) \ {<<>>}, e \in BOOLEAN}

\* Calls whose arguments print: let x = 1; fn p(n) do print(n) return n end;
\* fn f(x, y) do print(0) return x - y end; fn h(x) do print(<tree>) end; h(2),
\* where <tree> is p(1), p(x) or f(<tree>, <tree>) with at most MaxCalls f's.
PLeaf(x) == [t |-> "p", x |-> x]
FNode(a, b) == [t |-> "f", a |-> a, b |-> b]

RECURSIVE TreesOf(_)
TreesOf(n) ==
    IF n = 0 THEN {PLeaf(x) : x \in BOOLEAN}
    ELSE UNION {{FNode(a, b) : a \in TreesOf(i), b \in TreesOf(n - 1 - i)} :
                   i \in 0..(n - 1)}
Trees == UNION {TreesOf(n) : n \in 0..MaxCalls}

RECURSIVE TreeTokens(_)
TreeTokens(tr) ==
    IF tr.t = "p"
    THEN <<IdentifierT("p"), Tok("LParen"),
           IF tr.x THEN IdentifierT("x") ELSE NumberT(1), Tok("RParen")>>
    ELSE <<IdentifierT("f"), Tok("LParen")>> \o TreeTokens(tr.a) \o <<Tok("Comma")>>
         \o TreeTokens(tr.b) \o <<Tok("RParen")>>

CallSource(tr) ==
    <<Tok("Let"), IdentifierT("x"), Tok("Equal"), NumberT(1),
      Tok("Fn"), IdentifierT("p"), Tok("LParen"), IdentifierT("n"), Tok("RParen"),
      Tok("Do"), Tok("Print"), Tok("LParen"), IdentifierT("n"), Tok("RParen"),
      Tok("Return"), IdentifierT("n"), Tok("End"),
      Tok("Fn"), IdentifierT("f"), Tok("LParen"), IdentifierT("x"), Tok("Comma"),
      IdentifierT("y"), Tok("RParen"), Tok("Do")>> \o PrintN(0)
    \o <<Tok("Return"), IdentifierT("x"), Tok("Minus"), IdentifierT("y"), Tok("End"),
         Tok("Fn"), IdentifierT("h"), Tok("LParen"), IdentifierT("x"), Tok("RParen"),
         Tok("Do"), Tok("Print"), Tok("LParen")>> \o TreeTokens(tr)
    \o <<Tok("RParen"), Tok("End"),
         IdentifierT("h"), Tok("LParen"), NumberT(2), Tok("RParen")>>

\* let mod x = 0  fn g() do x = 3 print(7) return true end
\* print(<l> and|or <right>)  print(x): the right operand is a call with side
\* effects, a literal, an undefined variable, 1 / 0 or a number
RightKinds == {"g", "true", "false", "u", "zero", "one"}
Logicals == [op : {"And", "Or"}, l : BOOLEAN, right : RightKinds]
LogicalRight(kind) ==
    CASE kind = "g" -> <<IdentifierT("g"), Tok("LParen"), Tok("RParen")>>
      [] kind = "true" -> <<Tok("True")>>
      [] kind = "false" -> <<Tok("False")>>
      [] kind = "u" -> <<IdentifierT("u")>>
      [] kind = "zero" -> <<NumberT(1), Tok("Slash"), NumberT(0)>>
      [] OTHER -> <<NumberT(1)>>
LogicalSource(lg) ==
    <<Tok("Let"), Tok("Mod"), IdentifierT("x"), Tok("Equal"), NumberT(0),
      Tok("Fn"), IdentifierT("g"), Tok("LParen"), Tok("RParen"), Tok("Do"),
      IdentifierT("x"), Tok("Equal"), NumberT(3)>>
    \o PrintN(7) \o <<Tok("Return"), Tok("True"), Tok("End")>>
    \o <<Tok("Print"), Tok("LParen"), Tok(IF lg.l THEN "True" ELSE "False"),
         Tok(lg.op)>>
    \o LogicalRight(lg.right) \o <<Tok("RParen")>>
    \o <<Tok("Print"), Tok("LParen"), IdentifierT("x"), Tok("RParen")>>

Sources ==
    {ChainSource(ch) : ch \in Chains} \cup {CallSource(tr) : tr \in Trees}
    \cup {LogicalSource(lg) : lg \in Logicals}

\* ------------------------------------------------------------------- Spec
\* Interpreter::new() followed by interpret(program), for a program given as a
\* tree or as the tokens main parses
Init ==
    /\ globals = EmptyMap
    /\ call_stack = <<<<EmptyMap>>>>
    /\ loop_depth = 0
    /\ function_depth = 0
    /\ output = <<>>
    /\ err = ""
    /\ \/ \E program \in Programs :
             /\ kont = <<[k |-> "interpret", pc |-> "body", rest |-> program]>>
             /\ ctl = Iter
       \/ \E source \in Sources :
             /\ kont = <<[k |-> "main", pc |-> "parse", source |-> source]>>
             /\ ctl = AtMain

Next ==
    \/ Main \/ InterpretStep \/ Propagate
    \/ ExecLet \/ LetDefine \/ ExecAssign \/ AssignStore
    \/ ExecPrint \/ PrintValue \/ ExecExprStmt \/ ExprStmtDone
    \/ ExecIf \/ IfCond \/ IfNext \/ IfSignal
    \/ ExecWhile \/ WhileCond \/ WhileNext \/ WhileSignal
    \/ ExecLoop \/ LoopNext \/ LoopSignal
    \/ ExecBreak \/ ExecContinue \/ ExecFn \/ ExecReturn \/ ReturnValue
    \/ EvalLiteral \/ EvalVariable \/ EvalUnary \/ UnaryApply
    \/ EvalBinary \/ BinaryRight \/ BinaryApply
    \/ EvalCall \/ CallArg \/ CallEnter \/ CallNext \/ CallReturn

Spec == Init /\ [][Next]_vars

\* ------------------------------------------------------ the parser alone
\* print(e) for every e made of up to MaxOperands variables, each with or
\* without a `not` before it, joined by binary operators
BinaryTokens ==
    {"Or", "And", "EqualEqual", "BangEqual", "Less", "LessEqual", "Greater",
     "GreaterEqual", "Plus", "Minus", "Star", "Slash", "Percent"}
Names == <<"a", "b", "c", "d", "e">>

RECURSIVE FlatExprs(_)
\* the token sequences of the expressions with n operands
FlatExprs(n) ==
    LET operand == {<<IdentifierT(Names[n])>>, <<Tok("Not"), IdentifierT(Names[n])>>}
    IN  IF n = 1 THEN operand
        ELSE {e \o <<Tok(op)>> \o o :
                 e \in FlatExprs(n - 1), op \in BinaryTokens, o \in operand}

ExprSources ==
    {<<Tok("Print"), Tok("LParen")>> \o e \o <<Tok("RParen")>> :
        e \in UNION {FlatExprs(n) : n \in 1..MaxOperands}}

InitParser ==
    /\ globals = EmptyMap
    /\ call_stack = <<<<EmptyMap>>>>
    /\ loop_depth = 0
    /\ function_depth = 0
    /\ output = <<>>
    /\ err = ""
    /\ \E source \in ExprSources :
          kont = <<[k |-> "main", pc |-> "parse", source |-> source]>>
    /\ ctl = AtMain

NextParser == Main

SpecParser == InitParser /\ [][NextParser]_vars

\* ------------------------------------------------------- the lexer alone
\* every input of up to MaxInput characters over the comment characters, a
\* newline, a letter and a character that is no token by itself
Alphabet == {"/", "*", "\n", "a", "!"}
Inputs == SeqsUpTo(Alphabet, MaxInput)

InitLexer ==
    /\ globals = EmptyMap
    /\ call_stack = <<<<EmptyMap>>>>
    /\ loop_depth = 0
    /\ function_depth = 0
    /\ output = <<>>
    /\ err = ""
    /\ \E input \in Inputs :
          kont = <<[k |-> "main", pc |-> "lex", input |-> input, position |-> 0,
                    source |-> <<>>]>>
    /\ ctl = AtMain

NextLexer == LexToken

SpecLexer == InitLexer /\ [][NextLexer]_vars

\* ------------------------------------------------- reading the activations
\* the Call activations whose body is running, innermost first
CallIdx == {i \in 1..Len(kont) : kont[i].k = "Call" /\ kont[i].pc = "body"}
\* the activations of the current function invocation (or of the top level)
OwnRecords == {i \in 1..Len(kont) : \A j \in CallIdx : i < j}
\* the if / while / loop bodies of the current invocation that are open
EnclosingBlocks ==
    {i \in OwnRecords : kont[i].k \in {"If", "While", "Loop"} /\ kont[i].pc = "body"}
\* the while / loop statements of the current invocation that are open
EnclosingLoops == {i \in OwnRecords : kont[i].k \in {"While", "Loop"}}
\* some caller of the current invocation is inside one of its own loops
CallerInLoop ==
    \E j \in CallIdx : \E i \in j + 1..Len(kont) : kont[i].k \in {"While", "Loop"}
InnermostScope == CurrentFrame(call_stack)[Len(CurrentFrame(call_stack))]
BoundInFrame(name) == Binders(CurrentFrame(call_stack), name) # {}

\* ---------------------------------------------------------------------- C1
\* C1 (as claimed): a `let` of N run inside an if / while / loop body, at top
\* level or in a function, succeeds whenever N is not bound by the block's own
\* scope but is bound by an enclosing scope of the frame or by the globals.
C1_LetInBlockSucceeds ==
    [][ ( /\ Handed("Let", "value")
          /\ EnclosingBlocks # {}
          /\ Top.name \notin DOMAIN InnermostScope
          /\ BoundInFrame(Top.name) \/ Top.name \in DOMAIN globals )
        => err' = "" ]_vars

\* ---------------------------------------------------------------------- C2
\* the scope a declaration targets holds the declared name already
DeclStep == Handed("Let", "value") \/ AtStmtOf("Fn")
DeclName == IF ctl.m = "value" THEN Top.name ELSE ctl.s.name
BoundInTarget ==
    IF CallIdx = {} THEN DeclName \in DOMAIN globals
    ELSE DeclName \in DOMAIN InnermostScope

\* C2: a `let` or `fn` of N, when the scope it targets (the globals outside
\* any call, else the innermost scope of the current frame) binds N already,
\* yields a runtime error and leaves every binding as it was.
C2_RedeclarationFails ==
    [][ (DeclStep /\ BoundInTarget)
        => /\ err' \in {"Runtime Error: Global variable '" \o DeclName
                          \o "' already declared.",
                        "Runtime Error: Variable '" \o DeclName
                          \o "' already declared in this scope."}
           /\ globals' = globals /\ call_stack' = call_stack ]_vars

\* a `let x` in the outermost level of f's body hit the parameter x = 7,
\* which is still bound, immutable, to 7
C2_Witness ==
    /\ err = "Runtime Error: Variable 'x' already declared in this scope."
    /\ Len(call_stack) = 2 /\ Len(CurrentFrame(call_stack)) = 1
    /\ "x" \in DOMAIN InnermostScope
    /\ InnermostScope["x"] = VariableB(IntegerV(7), FALSE)

\* ---------------------------------------------------------------------- C3
\* the first binding of name on the search path is immutable
FirstMatchImmutable(name) ==
    LET frame == CurrentFrame(call_stack)
    IN  IF BoundInFrame(name)
        THEN \E i \in 1..Len(frame) :
                /\ name \in DOMAIN frame[i] /\ ~frame[i][name].mutable
                /\ \A j \in i + 1..Len(frame) : name \notin DOMAIN frame[j]
        ELSE name \in DOMAIN globals /\ ~globals[name].mutable

\* C3: an assignment whose first matching binding (current frame innermost to
\* outermost, then globals) is immutable fails with the cannot-reassign error
\* and changes no binding, whatever mutable binding lies further out.
C3_ImmutableAssignFails ==
    [][ (Handed("Assign", "value") /\ FirstMatchImmutable(Top.name))
        => /\ err' = "Runtime Error: Cannot reassign immutable variable '"
                     \o Top.name \o "'."
           /\ globals' = globals /\ call_stack' = call_stack ]_vars

\* `x = 3` in f(x) failed on the parameter although the global x is mutable
C3_Witness ==
    /\ err = "Runtime Error: Cannot reassign immutable variable 'x'."
    /\ Len(call_stack) = 2
    /\ "x" \in DOMAIN CurrentFrame(call_stack)[1]
    /\ ~CurrentFrame(call_stack)[1]["x"].mutable
    /\ "x" \in DOMAIN globals /\ globals["x"].mutable

\* ---------------------------------------------------------------------- C4
AtBreakOrContinue == AtStmtOf("Break") \/ AtStmtOf("Continue")
OutsideLoopError ==
    IF ctl.s.t = "Break" THEN "Runtime error: 'break' used outside of loop"
    ELSE "Runtime error: 'continue' used outside of loop"

\* C4: `break` / `continue` run with no open loop in the current invocation
\* (or at top level), and `return` run with no call active, end the run with
\* the dedicated error, under any number of enclosing `if` branches.
C4_OutsideIsFatal ==
    [][ /\ (AtBreakOrContinue /\ EnclosingLoops = {}) => err' = OutsideLoopError
        /\ (AtStmtOf("Return") /\ CallIdx = {})
              => err' = "Runtime error: 'return' used outside of function" ]_vars

\* a top-level `continue` under two nested `if` branches has just failed
C4_Witness ==
    /\ err = "Runtime error: 'continue' used outside of loop"
    /\ ctl.m = "err" /\ CallIdx = {} /\ EnclosingLoops = {}
    /\ Cardinality({i \in 1..Len(kont) : kont[i].k = "If"}) = 2

\* ---------------------------------------------------------------------- C5
\* the innermost activation is a call whose body runs, and this step ends it
CallFinishes ==
    /\ kont # <<>> /\ Top.k = "Call" /\ Top.pc = "body"
    /\ Len(kont') = Len(kont) - 1

\* C5 (as claimed): when a call finishes, by a Return signal, by the end of
\* the body or by a runtime error raised in the body, the call stack has as
\* many frames as before the call and both depth counters have their
\* pre-call values.
C5_CallRestoresState ==
    [][ CallFinishes
        => /\ Len(call_stack') = Top.entry_frames
           /\ loop_depth' = Top.old_loop_depth
           /\ function_depth' = Top.entry_function_depth ]_vars

\* ---------------------------------------------------------------------- C6
\* C6 (as claimed): a function declaration that succeeds, wherever it is
\* run, leaves an immutable binding of the function's name in the globals.
C6_FnIsGlobal ==
    [][ (AtStmtOf("Fn") /\ err' = "")
        => /\ ctl.s.name \in DOMAIN globals'
           /\ globals'[ctl.s.name] =
                VariableB(FunctionV(ctl.s.name, ctl.s.params, ctl.s.body), FALSE)
      ]_vars

\* ---------------------------------------------------------------------- C7
\* the innermost activation is an if / while / loop statement that this step
\* completes with a signal (not with an Err)
BlockCompletes ==
    /\ Running(err) /\ kont # <<>> /\ Top.k \in {"If", "While", "Loop"}
    /\ Len(kont') = Len(kont) - 1 /\ err' = ""
\* a while body has finished and the condition is evaluated again
WhileIterates ==
    /\ Running(err) /\ kont # <<>> /\ Top.k = "While" /\ Top.pc = "body"
    /\ Len(kont') = Len(kont) /\ kont'[1].pc = "cond"

CallReturns == CallFinishes /\ err' = ""

\* C8: in a function body a `break` / `continue` outside every loop of that
\* body is a fatal error, also when the caller made the call from inside a
\* loop; when the call returns the loop depth is again the number of loops
\* open in the caller, and a `break` / `continue` inside a loop of the
\* running invocation is accepted.
C8_LoopsStopAtCalls ==
    [][ /\ (AtBreakOrContinue /\ CallIdx # {} /\ EnclosingLoops = {})
              => err' = OutsideLoopError
        /\ CallReturns => loop_depth' = Cardinality(EnclosingLoops')
        /\ (AtBreakOrContinue /\ EnclosingLoops # {})
              => err' = "" /\ ctl' = Result([t |-> ctl.s.t]) ]_vars

\* a `break` in a function body has just failed while the caller is in a loop
C8_Witness ==
    /\ err = "Runtime error: 'break' used outside of loop"
    /\ ctl.m = "err" /\ CallIdx # {} /\ EnclosingLoops = {} /\ CallerInLoop

\* ---------------------------------------------------------------------- C9
\* name is bound in a frame below the top one, and nowhere the callee may look
OnlyInLowerFrame(name) ==
    /\ ~BoundInFrame(name) /\ name \notin DOMAIN globals
    /\ \E i \in 1..Len(call_stack) - 1 : Binders(call_stack[i], name) # {}

C10_ErrorStopsRun ==
    [][ /\ err' # "" => output' = output
        /\ err # "" => /\ err' = err
                       /\ <<globals, call_stack, loop_depth, function_depth>>' =
                            <<globals, call_stack, loop_depth, function_depth>>
                       /\ ctl'.m \in {"err", "exit"}
        /\ output' # output
              => /\ Handed("Print", "value")
                 /\ output' = Append(output, Display(ctl.v)) ]_vars

\* interpret has returned the division error of a print of 1 / 0 that
\* followed a print of x = 0: the one line printed is that of the first print
C10_Witness ==
    /\ err = "Runtime Error: Division by zero."
    /\ ctl = Exit /\ kont = <<>>
    /\ output = <<"0">>
\* ------------------------------------------------- claims on parsed programs
\* the tokens main was started on, while a run of main is under way
Source ==
    IF kont # <<>> /\ kont[Len(kont)].k = "main" THEN kont[Len(kont)].source
    ELSE <<>>

\* main runs an if chain (its file starts with fn) or a call tree (with let)
IsChainRun == Source # <<>> /\ Source[1].t = "Fn"
IsCallRun == Source # <<>> /\ Source[1].t = "Let"

IsPrefix(s, t) == Len(s) <= Len(t) /\ \A i \in 1..Len(s) : s[i] = t[i]
Line(n) == Display(IntegerV(n))

\* the first condition of the chain that is true, 0 when none is
FirstTrue(conds) ==
    IF \E i \in 1..Len(conds) : conds[i]
    THEN CHOOSE i \in 1..Len(conds) : conds[i] /\ \A j \in 1..(i - 1) : ~conds[j]
    ELSE 0

\* what the chain has to print: the index of every condition up to the first
\* true one, the two markers of that branch (of the else branch when no
\* condition is true and there is one), and the 99 that follows the chain
ChainOutput(ch) ==
    LET first == FirstTrue(ch.conds)
        evaluated == IF first = 0 THEN Len(ch.conds) ELSE first
    IN  [i \in 1..evaluated |-> Line(i)]
        \o (IF first # 0 THEN <<Line(10 + first), Line(20 + first)>>
            ELSE IF ch.has_else THEN <<Line(10), Line(20)>> ELSE <<>>)
        \o <<Line(99)>>

\* C11: an if/elseif/else chain of any length closed by one `end` parses, its
\* conditions are evaluated in source order up to the first true one, exactly
\* that branch runs (the else branch when every condition is false), and the
\* statement after the chain runs next: at every step of the run the lines
\* printed are a prefix of that sequence, and at exit they are all of it.
C11_ChainShortCircuits ==
    [][\A ch \in Chains :
          (IsChainRun /\ Source = ChainSource(ch)) =>
             /\ ctl' # Panicked
             /\ err' = ""
             /\ IsPrefix(output', ChainOutput(ch))
             /\ ctl' = Exit => output' = ChainOutput(ch)]_vars

\* a chain of MaxChain conditions and an else branch, of which only the last
\* condition is true, has run to its end
C11_Witness ==
    /\ ctl = Exit
    /\ output = ChainOutput([conds |-> [i \in 1..MaxChain |-> i = MaxChain],
                             has_else |-> TRUE])

\* what print(<tree>) inside h(2) has to print before the value of the tree:
\* the arguments of a call left to right, each in full, then the 0 of f's body
RECURSIVE TreeTrace(_), TreeValue(_)
TreeTrace(tr) ==
    IF tr.t = "p" THEN <<Line(IF tr.x THEN 2 ELSE 1)>>
    ELSE TreeTrace(tr.a) \o TreeTrace(tr.b) \o <<Line(0)>>
TreeValue(tr) ==
    IF tr.t = "p" THEN (IF tr.x THEN 2 ELSE 1)
    ELSE TreeValue(tr.a) - TreeValue(tr.b)
TreeOutput(tr) == TreeTrace(tr) \o <<Line(TreeValue(tr))>>

\* the activations of calls whose body is running
InBody == {i \in 1..Len(kont) : kont[i].k = "Call" /\ kont[i].pc = "body"}
\* every activation of a call accounts for each of its n arguments: evaluated,
\* under evaluation, or still to come; none is evaluated once the body runs
ArgsAccounted(i) ==
    LET rec == kont[i]
        pending == IF i = 1 /\ ctl.m = "iter" THEN 0 ELSE 1
    IN  IF rec.pc = "body"
        THEN rec.args = <<>> /\ Len(rec.arg_vals) = Len(rec.params)
        ELSE Len(rec.arg_vals) + pending + Len(rec.args) = Len(rec.params)

\* C12: the arguments of a call are evaluated first to last, each to its end
\* (calls nested in it included) before the next, against the caller's frame;
\* the callee's frame exists and its body runs only once all n are evaluated:
\* frames are exactly the base frame and one per call whose body is running,
\* and the lines printed are the left-to-right trace of the argument tree.
C12_ArgumentsBeforeFrame ==
    [][/\ err' = "" /\ kont' # <<>> =>
            /\ Len(call_stack') = 1 + Cardinality(InBody')
            /\ \A i \in 1..Len(kont') :
                  kont'[i].k = "Call" => ArgsAccounted(i)'
       /\ \A tr \in Trees :
             (IsCallRun /\ Source = CallSource(tr)) =>
                /\ ctl' # Panicked
                /\ err' = ""
                /\ IsPrefix(output', TreeOutput(tr))
                /\ ctl' = Exit => output' = TreeOutput(tr)]_vars

\* print(f(f(p(1), p(x)), p(x))) inside h(2) has run to its end
C12_Witness ==
    /\ ctl = Exit
    /\ output = <<Line(1), Line(2), Line(0), Line(2), Line(0), Line(-3)>>

\* ------------------------------------------------------- claims on loops
RECURSIVE CallFree(_)
\* the expression holds no call
CallFree(e) ==
    CASE e.t = "Call" -> FALSE
      [] e.t = "Binary" -> CallFree(e.left) /\ CallFree(e.right)
      [] e.t = "Unary" -> CallFree(e.right)
      [] OTHER -> TRUE

\* the condition of a while statement has been evaluated for the first time
\* and is false
FirstCheckFalse ==
    Handed("While", "cond") /\ Top.first /\ ctl.v = BooleanV(FALSE)

\* the statement ends at once, with bindings, scopes and output as on entry
EndsUntouched ==
    /\ kont' = Pop
    /\ ctl' = Result(Normal)
    /\ err' = ""
    /\ <<globals', call_stack', output'>> = Top.entry_state

\* C13 as stated: a while statement whose condition is false on its first
\* evaluation ends without running its body and leaves all bindings of the
\* globals and of every frame, the scope count and the output as they were
\* before the statement, whatever the condition is.
C13_FalseWhileChangesNothing == [][FirstCheckFalse => EndsUntouched]_vars

\* C13, amended: the same for a condition that calls no function.
C13_PureFalseWhileChangesNothing ==
    [][FirstCheckFalse /\ CallFree(Top.condition) => EndsUntouched]_vars

\* inside a block of a function that declared a local, a call-free condition
\* has just come out false on the first check
C13_Witness ==
    /\ FirstCheckFalse /\ CallFree(Top.condition)
    /\ function_depth > 0
    /\ Len(CurrentFrame(call_stack)) > 1
    /\ CurrentFrame(call_stack)[1] # EmptyMap

\* -------------------------------------------------- claims on expressions
\* both operands of a division or a modulo are evaluated and are integers
AtDivision ==
    /\ Handed("Binary", "right") /\ Top.op \in {"Div", "Mod"}
    /\ Top.l.t = "Integer" /\ ctl.v.t = "Integer"

ZeroErrors == {"Runtime Error: Division by zero.", "Runtime Error: Modulo by zero."}

\* C14: a / 0 yields the error 'Division by zero' and a % 0 the error 'Modulo
\* by zero', never a value, for every integer a; with a nonzero right operand
\* the operation yields an integer and neither of the two errors.
C14_ZeroDivisorIsAnError ==
    [][AtDivision =>
          IF ctl.v.v = 0
          THEN /\ ctl' = Failing
               /\ err' = IF Top.op = "Div" THEN "Runtime Error: Division by zero."
                         ELSE "Runtime Error: Modulo by zero."
          ELSE /\ err' \notin ZeroErrors
               /\ ctl'.m = "value" /\ ctl'.v.t = "Integer"]_vars

\* a negative integer modulo zero has raised its error
C14_Witness ==
    /\ err = "Runtime Error: Modulo by zero."
    /\ kont # <<>> /\ Top.k = "Binary" /\ Top.op = "Mod" /\ Top.l.v < 0

\* ----------------------------------------------------- claims on signals
\* a statement has returned the signal sig to the activation that ran it
Returned(sig) ==
    Running(err) /\ kont # <<>> /\ ctl.m = "result" /\ ctl.r.t = sig

\* C15: once `return e` has run in a function body, under any nesting of
\* if / while / loop, every enclosing block of the invocation is left with
\* the signal unchanged (no statement, no condition, no new iteration) until
\* the call is reached, which evaluates to the value of e; a call whose body
\* ends without a return evaluates to nil.
C15_ReturnEndsInvocation ==
    [][/\ Handed("Return", "value") => ctl' = Result(ReturnR(ctl.v))
       /\ Returned("Return") =>
             /\ kont' = Pop
             /\ IF Top.k = "Call" THEN ctl' = Value(ctl.r.v)
                ELSE Top.k \in {"If", "While", "Loop"} /\ ctl' = ctl
       /\ (CallFinishes /\ err' = "" /\ ~Returned("Return")) => ctl' = Value(NilV)]_vars

\* a return inside an if inside a loop of a function body is on its way out
C15_Witness ==
    /\ Returned("Return") /\ Len(kont) > 2
    /\ Top.k = "If" /\ kont[2].k \in {"While", "Loop"} /\ kont[3].k = "Call"

\* C16: a break, also one coming out of if branches, ends the innermost
\* enclosing loop only: that loop's activation is popped and its statement
\* returns Normal to the sequence that holds it; a continue leaves the
\* innermost loop in place and has its condition evaluated again (for `loop`,
\* the body started again); the activations below, the outer loop among
\* them, are as they were.
C16_InnermostLoopOnly ==
    [][/\ Returned("Break") =>
             /\ kont' = Pop
             /\ IF Top.k = "If" THEN ctl' = ctl
                ELSE /\ Top.k \in {"While", "Loop"}
                     /\ ctl' = Result(Normal)
                     /\ loop_depth' = loop_depth - 1
       /\ Returned("Continue") =>
             IF Top.k = "If" THEN kont' = Pop /\ ctl' = ctl
             ELSE /\ Top.k \in {"While", "Loop"}
                  /\ Len(kont') = Len(kont) /\ Tail(kont') = Tail(kont)
                  /\ kont'[1].k = Top.k /\ kont'[1].body = Top.body
                  /\ loop_depth' = loop_depth
                  /\ IF Top.k = "While"
                     THEN kont'[1].pc = "cond" /\ ctl' = AtExpr(Top.condition)
                     ELSE kont'[1].rest = Top.body /\ ctl' = Iter]_vars

\* a break has reached the inner of two nested loops
C16_Witness ==
    /\ Returned("Break") /\ Len(kont) > 2
    /\ Top.k \in {"While", "Loop"} /\ kont[2].k \in {"While", "Loop"}
    /\ loop_depth = 2

\* C19: no top-level statement returns Break or Continue to interpret and no
\* body statement returns one to the statement loop of a call: the signal is
\* always met by an if, a while or a loop of the invocation that raised it.
C19_SignalsStayInside ==
    (Returned("Break") \/ Returned("Continue")) => Top.k \in {"If", "While", "Loop"}

\* inside a function body, a continue has reached the loop that encloses it
C19_Witness ==
    /\ Returned("Continue") /\ Top.k \in {"While", "Loop"}
    /\ function_depth > 0 /\ OwnRecords # {}

\* ------------------------------------------------ claims on the structure
\* C20: as long as no error is raised the call stack is not empty, every
\* frame holds at least one scope and function_depth is the number of frames
\* minus one; loop_depth and function_depth never go below zero. So the
\* unwraps of current_frame / current_frame_mut and the decrements of the
\* counters cannot panic.
C20_StackWellFormed ==
    /\ loop_depth >= 0 /\ function_depth >= 0
    /\ Running(err) =>
          /\ call_stack # <<>>
          /\ \A f \in 1..Len(call_stack) : Len(call_stack[f]) >= 1
          /\ function_depth = Len(call_stack) - 1

\* two calls deep, with the caller inside a block of its own
C20_Witness ==
    /\ Running(err) /\ Len(call_stack) > 2 /\ Len(call_stack[2]) > 1
    /\ function_depth = 2

\* --------------------------------------------------- claims on the parser
\* the precedence level of a binary operator token, lowest first
LevelOf(t) ==
    CASE t = "Or" -> 1
      [] t = "And" -> 2
      [] t \in {"EqualEqual", "BangEqual"} -> 3
      [] t \in {"Less", "LessEqual", "Greater", "GreaterEqual"} -> 4
      [] t \in {"Plus", "Minus"} -> 5
      [] OTHER -> 6

RECURSIVE Grouping(_)
\* the tree of a flat expression: it is split at the last of its operators
\* of the lowest level, whose operands are the trees of the two parts; with
\* no binary operator left, `not` applies to the operand that follows it
Grouping(e) ==
    LET at == {i \in 1..Len(e) : e[i].t \in BinaryTokens}
    IN  IF at = {}
        THEN IF e[1].t = "Not" THEN Unary("Not", Grouping(Tail(e)))
             ELSE Variable(e[1].name)
        ELSE LET split == CHOOSE i \in at :
                             \A j \in at : \/ LevelOf(e[j].t) > LevelOf(e[i].t)
                                           \/ LevelOf(e[j].t) = LevelOf(e[i].t) /\ j <= i
             IN  Binary(Grouping(SubSeq(e, 1, split - 1)), OpOf(e[split].t),
                        Grouping(SubSeq(e, split + 1, Len(e))))

\* main has parsed its tokens and is about to interpret the program
JustParsed == ctl = Iter /\ Len(kont) = 2 /\ kont[2].k = "main"

\* C17: parse_expr groups operators of a higher level (or < and < equality <
\* relational < additive < multiplicative < not) before those of a lower
\* level and operators of one level left to right: print(e) parses, without
\* a panic, to the print of the grouping of e.
C17_PrecedenceAndLeftAssoc ==
    /\ ctl # Panicked
    /\ JustParsed =>
          LET source == kont[2].source
          IN  Top.rest = <<PrintStmt(Grouping(SubSeq(source, 3, Len(source) - 1)))>>

\* print(not a == b - c - d ...) is parsed: the subtractions group to the
\* left, below the equality whose left operand is `not a`
C17_Witness ==
    /\ JustParsed
    /\ Top.rest[1].expr.t = "Binary" /\ Top.rest[1].expr.op = "Equal"
    /\ Top.rest[1].expr.left = Unary("Not", Variable("a"))
    /\ Top.rest[1].expr.right.t = "Binary" /\ Top.rest[1].expr.right.op = "Sub"
    /\ Top.rest[1].expr.right.right = Variable(Names[MaxOperands])

\* ---------------------------------------------------- claims on the lexer
\* the least element of a non-empty set of positions
Least(S) == CHOOSE i \in S : \A j \in S : i <= j

\* the call of next_token about to be made meets, after the whitespace, the
\* two characters `/` and second
Opens(second) ==
    LET at == SkipWhitespace(Top.input, Top.position)
    IN  /\ at + 1 < Len(Top.input)
        /\ CharAt(Top.input, at) = "/" /\ CharAt(Top.input, at + 1) = second

\* the call returns what a call started at position would return
LexesAsFrom(position) ==
    LET follows == NextToken(Top.input, position)
    IN  IF follows.ok
        THEN /\ ctl' = AtMain
             /\ kont'[1].source = Append(Top.source, follows.tok)
             /\ kont'[1].position = follows.position
        ELSE ctl' = Panicked

\* the call returns EOF with the cursor at the end of the input
LexesToEnd ==
    /\ ctl' = AtMain
    /\ kont'[1].source = Append(Top.source, Tok("EOF"))
    /\ kont'[1].position = Len(Top.input)

\* C18: next_token skips a block comment up to and including the first `*/`
\* that starts after its `/*` and returns the token that follows; without
\* such a `*/` the comment runs to the end of the input and the call returns
\* EOF; a line comment runs to the next newline, or to the end of the input,
\* where the call returns EOF; the cursor never passes the input's length.
C18_CommentsAreSkipped ==
    [][(ctl = AtMain /\ Top.pc = "lex") =>
          LET input == Top.input
              at == SkipWhitespace(input, Top.position)
              closers == {i \in (at + 2)..(Len(input) - 2) :
                             CharAt(input, i) = "*" /\ CharAt(input, i + 1) = "/"}
              newlines == {i \in (at + 2)..(Len(input) - 1) : CharAt(input, i) = "\n"}
          IN  /\ kont'[1].position <= Len(input)
              /\ Opens("*") =>
                    IF closers = {} THEN LexesToEnd
                    ELSE LexesAsFrom(Least(closers) + 2)
              /\ Opens("/") =>
                    IF newlines = {} THEN LexesToEnd
                    ELSE LexesAsFrom(Least(newlines))]_vars

\* the comment of the input /***/a is closed by the first */ after its
\* opener, and the call that met it has returned the identifier that follows
C18_Witness ==
    /\ Top.k = "main" /\ Top.pc = "lex"
    /\ Top.input = <<"/", "*", "*", "*", "/", "a">>
    /\ Top.source = <<IdentifierT("a")>> /\ Top.position = 6


\* ------------------------------------------------- claims on and / or
\* main runs print(l and|or right) (its file starts with let mod)
IsLogicalRun == Len(Source) > 1 /\ Source[2].t = "Mod"

\* what the run has to print and the error it has to end with when both
\* operands are evaluated whatever the left one is
LogicalOutput(lg) ==
    LET r == lg.right \in {"g", "true"}
        both == IF lg.op = "And" THEN lg.l /\ r ELSE lg.l \/ r
    IN  CASE lg.right = "g" -> <<Line(7), Display(BooleanV(both)), Line(3)>>
          [] lg.right \in {"true", "false"} -> <<Display(BooleanV(both)), Line(0)>>
          [] OTHER -> <<>>
LogicalError(lg) ==
    CASE lg.right = "u" -> "Runtime Error: Variable 'u' not defined."
      [] lg.right = "zero" -> "Runtime Error: Division by zero."
      [] lg.right = "one" ->
            IF lg.op = "And" THEN "Runtime Error: 'and' operands must be booleans."
            ELSE "Runtime Error: 'or' operands must be booleans."
      [] OTHER -> ""

\* C21: every binary operation, `and` and `or` included, evaluates its left
\* operand, then its right operand, and only then applies the operator: once
\* the left operand has a value the right operand is entered whatever the
\* operator and the value; a binary operation yields a value only from its
\* two operand values; an error under it ends it without a value. For
\* print(l and|or right) the side effects of the right operand (the print
\* and the assignment of g) show and its error (undefined variable, division
\* by zero, operand not a boolean) ends the run, also for `false and ..` and
\* `true or ..`.
C21_BothOperandsEvaluated ==
    [][/\ Handed("Binary", "left") =>
             /\ ctl' = AtExpr(Top.right)
             /\ kont' = Replace([Top EXCEPT !.pc = "right", !.l = ctl.v])
             /\ err' = ""
       /\ (kont # <<>> /\ Top.k = "Binary" /\ kont' = Pop /\ err' = "") =>
             /\ Handed("Binary", "right")
             /\ ApplyBinary(Top.op, Top.l, ctl.v).ok
             /\ ctl' = Value(ApplyBinary(Top.op, Top.l, ctl.v).x)
       /\ (kont # <<>> /\ Top.k = "Binary" /\ err # "") =>
             kont' = Pop /\ ctl'.m \in {"err", "exit"} /\ err' = err
       /\ \A lg \in Logicals :
             (IsLogicalRun /\ Source = LogicalSource(lg)) =>
                /\ ctl' # Panicked
                /\ err' \in {"", LogicalError(lg)}
                /\ IsPrefix(output', LogicalOutput(lg))
                /\ ctl' = Exit =>
                      output' = LogicalOutput(lg) /\ err' = LogicalError(lg)]_vars

\* `false and g()`: the right operand has been evaluated, g has printed 7 and
\* set x to 3, and the operator is about to be applied to false and true
C21_Witness ==
    /\ Handed("Binary", "right")
    /\ Top.op = "And"
    /\ Top.l.t = "Boolean" /\ ~Top.l.v
    /\ ctl.v.t = "Boolean" /\ ctl.v.v
    /\ output = <<Line(7)>>
    /\ GetVariable(globals, call_stack, "x").x = IntegerV(3)
====
